---- MODULE Spec2Model ----
(***************************************************************************)
(* Model of the doc-to-ai-rules compiler and delivery scripts:             *)
(*   MarkdownParser.extractSections     (markdownParser.js)                *)
(*   ConfigParser                       (configParser.js)                  *)
(*   RuleGenerator / FileHandler        (ruleGenerator.js, fileHandler.js) *)
(*   RuleCleanupHandler, copyRulesToRepo (ruleCleanupHandler.js, ...)      *)
(*                                                                         *)
(* Strings whose characters matter (titles, descriptions) are sequences of *)
(* one-character strings.  An optional value (JavaScript null/undefined or *)
(* a value) is a sequence of length at most one: None or Some(v).          *)
(***************************************************************************)
EXTENDS Integers, Sequences, FiniteSets, TLC

VARIABLES
    sections,                  \* extractSections: the tree, path -> node
    currentPath,               \* extractSections: stack of open titles
    currentConfig,             \* extractSections: config buffered for the next heading
    suppressConfigUntilLevel,  \* extractSections: None or Some(level)
    keyOrder,                  \* insertion order of the keys of every sections object
    nLines,                    \* number of lines consumed so far
    hist,                      \* observation of the run: last line, annotations seen, ...
    pc,                        \* position in the pipeline
    config,                    \* RuleGenerator.config (corpus-level configuration)
    rules,                     \* generateRules: path -> rule with its effectiveConfig
    tocRules,                  \* generateRules: the table_of_contents rules, in order
    sectionNames,              \* RuleGenerator.sectionNames (the name index)
    artifacts,                 \* the .mdc files written by writeRuleFiles
    allSections,               \* generateRules: the sections of the files merged so far
    stagedFiles,               \* files found under the generated-rules directory
    targetFiles,               \* files of the target repository checkout
    targetDirs,                \* directories of the target repository checkout
    env,                       \* delivery environment: project types, base path, discovery
    deletedFiles,              \* cleanupOrphanedRules: the returned list
    host                       \* entrypoint.sh: the loop over the target repositories

parserVars ==
    <<sections, keyOrder, currentPath, currentConfig, suppressConfigUntilLevel, nLines, hist>>
compileVars == <<config, rules, tocRules, sectionNames, artifacts, allSections>>
syncVars == <<stagedFiles, targetFiles, targetDirs, env, deletedFiles, host>>
vars == <<parserVars, pc, compileVars, syncVars>>

(***************************************************************************)
(* Bounds of the model.                                                    *)
(***************************************************************************)
MaxLines == 5
MaxFiles == 2
MaxLevel == 3

(***************************************************************************)
(* Optional values.                                                        *)
(***************************************************************************)
None == <<>>
Some(v) == <<v>>

Min(a, b) == IF a < b THEN a ELSE b

(***************************************************************************)
(* Characters and strings.                                                 *)
(***************************************************************************)
Str1(a) == <<a>>
Str3(a, b, c) == <<a, b, c>>

(***************************************************************************)
(* Configuration objects are JavaScript objects: functions from the keys   *)
(* that are present to optional values (null is None).                     *)
(***************************************************************************)
ConfigKeys == {"type", "path", "globs", "description", "projectTypes", "unifySubsections"}

\* the object literal {} (markdownParser.js: currentConfig = {})
EmptyConfig == [k \in {} |-> None]

\* property read: a missing key reads undefined, which is nullish like null
Get(obj, k) == IF k \in DOMAIN obj THEN obj[k] ELSE None

\* object spread {...a, ...b}: every own key of b, null-valued or not, wins
Spread(a, b) ==
    [k \in (DOMAIN a) \cup (DOMAIN b) |-> IF k \in DOMAIN b THEN b[k] ELSE a[k]]

\* the texts for which s.toLowerCase() === 'true'
IsTrueText(s) == s \in {"true", "True", "TRUE"}

\* An annotation is what the six regular expressions find in the comment:
\* for each attribute None (no match) or Some(text).
NoAttrs ==
    [type |-> None, path |-> None, globs |-> None, description |-> None,
     projectTypes |-> None, unifySubsections |-> None]

parseConfigAttributes(attrs) ==
    [type |-> attrs.type,
     path |-> attrs.path,
     globs |-> attrs.globs,
     description |-> attrs.description,
     projectTypes |->
        IF attrs.projectTypes # None /\ attrs.projectTypes[1].valid
        THEN Some(attrs.projectTypes[1].value)
        ELSE None,
     unifySubsections |->
        IF attrs.unifySubsections # None
        THEN Some(IsTrueText(attrs.unifySubsections[1]))
        ELSE Some(FALSE)]

(***************************************************************************)
(* Lines of a document.                                                    *)
(***************************************************************************)
HeadingLine(level, title) ==
    [kind |-> "heading", level |-> level, title |-> title, attrs |-> NoAttrs, text |-> ""]
AnnotationLine(attrs) ==
    [kind |-> "annotation", level |-> 0, title |-> <<>>, attrs |-> attrs, text |-> ""]
TextLine(text) ==
    [kind |-> "text", level |-> 0, title |-> <<>>, attrs |-> NoAttrs, text |-> text]
BlankLine ==
    [kind |-> "blank", level |-> 0, title |-> <<>>, attrs |-> NoAttrs, text |-> ""]
NoLine ==
    [kind |-> "none", level |-> 0, title |-> <<>>, attrs |-> NoAttrs, text |-> ""]

(***************************************************************************)
(* The section tree: a function from the paths of the existing nodes       *)
(* (sequences of titles from a top-level section down) to                  *)
(* [config, content].  The children of p are the paths p \o <<t>>.         *)
(***************************************************************************)
IsPrefix(p, q) == Len(p) <= Len(q) /\ SubSeq(q, 1, Len(p)) = p
IsStrictPrefix(p, q) == Len(p) < Len(q) /\ SubSeq(q, 1, Len(p)) = p
Parent(p) == SubSeq(p, 1, Len(p) - 1)
Prefix(p, i) == SubSeq(p, 1, i)

NewSection(cfg) == [config |-> cfg, content |-> <<>>]

\* sections[title] = { config, content: [], sections: {} } at the place path names:
\* an earlier node of the same path is replaced together with its subtree
PutSection(tree, path, cfg) ==
    [p \in {q \in DOMAIN tree : ~IsStrictPrefix(path, q)} \cup {path} |->
        IF p = path THEN NewSection(cfg) ELSE tree[p]]

\* the key order after that assignment: a new key goes last, an existing key keeps
\* its place, and the new node's own sections object is empty
PutKey(keys, path) ==
    LET parent == Parent(path)
        title == path[Len(path)]
        known == \E i \in 1..Len(keys[parent]) : keys[parent][i] = title
    IN  [p \in {q \in DOMAIN keys : ~IsStrictPrefix(path, q)} \cup {path} |->
            IF p = path THEN <<>>
            ELSE IF p = parent /\ ~known THEN Append(keys[parent], title)
            ELSE keys[p]]

PushContent(tree, path, lines) ==
    [tree EXCEPT ![path].content = @ \o lines]

IsUnifier(tree, p) == Get(tree[p].config, "unifySubsections") = Some(TRUE)

\* the same loop stopping one ancestor early
MutUnifiers(tree, path) ==
    {i \in 1..(Len(path) - 2) : IsUnifier(tree, Prefix(path, i))}

\* the indices i < Len(path) whose node has a truthy config.unifySubsections
Unifiers(tree, path) ==
    {i \in 1..(Len(path) - 1) : IsUnifier(tree, Prefix(path, i))}

FirstOf(S) == CHOOSE i \in S : \A j \in S : i <= j

\* if (suppressConfigUntilLevel !== null) return;   (annotation lines)
AnnotationSuppressed(suppress) == suppress # None

\* the suppression marker that survives a heading of this level
MutStopSuppressing(suppress, level) == suppress

\* if (suppressConfigUntilLevel !== null && level <= suppressConfigUntilLevel)
\*     suppressConfigUntilLevel = null;
StopSuppressing(suppress, level) ==
    IF suppress # None /\ level <= suppress[1] THEN None ELSE suppress

\* while (currentPath.length >= level) currentPath.pop()
PopTo(path, level) == Prefix(path, Min(Len(path), level - 1))

(***************************************************************************)
(* MarkdownParser.extractSections, one action per kind of line.            *)
(***************************************************************************)
\* lines are read while the document is being parsed
CanRead == pc = "parse"

\* the node the stack names, when there is one
HasOpen == Len(currentPath) > 0

\* a line matching /<!--\s*ai-rules([^>]*?)-->/
Annotation(attrs) ==
    LET line == AnnotationLine(attrs)
        newConfig == parseConfigAttributes(attrs)
        applied == ~AnnotationSuppressed(suppressConfigUntilLevel) /\ HasOpen
    IN  /\ CanRead
        /\ nLines' = nLines + 1
        /\ IF AnnotationSuppressed(suppressConfigUntilLevel)
           THEN UNCHANGED <<sections, currentConfig>>
           ELSE IF HasOpen
                THEN /\ sections' = [sections EXCEPT ![currentPath].config = Spread(@, newConfig)]
                     /\ UNCHANGED currentConfig
                ELSE /\ currentConfig' = newConfig
                     /\ UNCHANGED sections
        /\ hist' = [hist EXCEPT !.line = line,
                                !.annLog = IF applied THEN Append(@, attrs) ELSE @]
        /\ UNCHANGED <<keyOrder, currentPath, suppressConfigUntilLevel>>
        /\ UNCHANGED <<pc, compileVars, syncVars>>

\* a line matching /^(#+)\s+(.+)/
Heading(level, title) ==
    LET line == HeadingLine(level, title)
        unsuppressed == StopSuppressing(suppressConfigUntilLevel, level)
        popped == PopTo(currentPath, level)
        pushed == Append(popped, title)
        unifiers == Unifiers(sections, pushed)
    IN  /\ CanRead
        /\ nLines' = nLines + 1
        /\ IF unifiers # {}
           THEN LET owner == Prefix(pushed, FirstOf(unifiers))
                IN  /\ sections' = PushContent(sections, owner, <<BlankLine, line>>)
                    /\ currentPath' = popped
                    /\ suppressConfigUntilLevel' = Some(level)
                    /\ UNCHANGED <<currentConfig, keyOrder>>
                    /\ hist' = [hist EXCEPT !.line = line,
                                            !.lastHeading = "absorbed",
                                            !.openLevels = Prefix(@, Len(popped))]
           ELSE /\ sections' = PutSection(sections, pushed, currentConfig)
                /\ keyOrder' = PutKey(keyOrder, pushed)
                /\ currentPath' = pushed
                /\ currentConfig' = EmptyConfig
                /\ suppressConfigUntilLevel' = unsuppressed
                /\ hist' = [hist EXCEPT !.line = line,
                                        !.lastHeading = "opened",
                                        !.annLog = <<>>,
                                        !.openLevels = Append(Prefix(@, Len(popped)), level)]
        /\ UNCHANGED <<pc, compileVars, syncVars>>

\* any other line with line.trim() non-empty
Content(text) ==
    LET line == TextLine(text)
        unifiers == Unifiers(sections, currentPath)
        owner == IF unifiers # {} THEN Prefix(currentPath, FirstOf(unifiers)) ELSE currentPath
    IN  /\ CanRead
        /\ nLines' = nLines + 1
        /\ IF HasOpen
           THEN sections' = PushContent(sections, owner, <<line>>)
           ELSE UNCHANGED sections
        /\ hist' = [hist EXCEPT !.line = line]
        /\ UNCHANGED <<keyOrder, currentPath, currentConfig, suppressConfigUntilLevel>>
        /\ UNCHANGED <<pc, compileVars, syncVars>>

\* a line with line.trim() empty
Blank ==
    /\ CanRead
    /\ nLines' = nLines + 1
    /\ hist' = [hist EXCEPT !.line = BlankLine]
    /\ UNCHANGED <<sections, keyOrder, currentPath, currentConfig, suppressConfigUntilLevel>>
    /\ UNCHANGED <<pc, compileVars, syncVars>>

(***************************************************************************)
(* Inputs of the parser specification.                                     *)
(***************************************************************************)
TitleA == Str1("A")
TitleB == Str1("B")
ParseTitles == {TitleA, TitleB}

AttrType(t) == [NoAttrs EXCEPT !.type = Some(t)]
AttrPath(p) == [NoAttrs EXCEPT !.path = Some(p)]
AttrUnify(s) == [NoAttrs EXCEPT !.unifySubsections = Some(s)]

ParseAnnotations == {AttrType("always"), AttrPath(<<"x">>), AttrUnify("True")}

NoConfig == [defaultRuleType |-> None, defaultRulePath |-> None, basePath |-> None,
             defaultProjectTypes |-> None, createTableOfContents |-> FALSE]
\* the file operations that throw: unlink and readFile of these files, readdir or
\* rmdir of these directories
NoFaults == [unlink |-> {}, read |-> {}, rmdir |-> {}]

NoEnv ==
    [projectTypes |-> <<>>, basePath |-> <<>>, strategyBasePath |-> None,
     discovery |-> "none", faults |-> NoFaults]

\* the entry point before its loop, without target repositories
NoHost == [exports |-> <<>>, index |-> 0, exit |-> None, outcomes |-> <<>>]

\* const allSections = {}: a tree without nodes, with the order of its keys
NoSections == [tree |-> [p \in {} |-> NewSection(EmptyConfig)], keys |-> [p \in {<<>>} |-> <<>>]]

InitParser ==
    /\ sections = [p \in {} |-> NewSection(EmptyConfig)]
    /\ keyOrder = [p \in {<<>>} |-> <<>>]
    /\ currentPath = <<>>
    /\ currentConfig = EmptyConfig
    /\ suppressConfigUntilLevel = None
    /\ nLines = 0
    /\ hist = [line |-> NoLine, annLog |-> <<>>, lastHeading |-> "none", openLevels |-> <<>>,
               files |-> <<>>]

InitIdleCompile ==
    /\ config = NoConfig
    /\ rules = [p \in {} |-> 0]
    /\ tocRules = <<>>
    /\ allSections = NoSections
    /\ sectionNames = [n \in {} |-> <<>>]
    /\ artifacts = <<>>

InitIdleSync ==
    /\ stagedFiles = <<>>
    /\ targetFiles = <<>>
    /\ targetDirs = {}
    /\ env = NoEnv
    /\ deletedFiles = {}
    /\ host = NoHost

Init ==
    /\ pc = "parse"
    /\ InitParser
    /\ InitIdleCompile
    /\ InitIdleSync

\* documents of at most MaxLines lines
ReadHeading ==
    /\ nLines < MaxLines
    /\ \E level \in 1..MaxLevel, title \in ParseTitles : Heading(level, title)

ReadAnnotation ==
    /\ nLines < MaxLines
    /\ \E attrs \in ParseAnnotations : Annotation(attrs)

ReadContent ==
    /\ nLines < MaxLines
    /\ Content("text")

ReadBlank ==
    /\ nLines < MaxLines
    /\ Blank

Next ==
    \/ ReadHeading
    \/ ReadAnnotation
    \/ ReadContent
    \/ ReadBlank

Spec == Init /\ [][Next]_vars

(***************************************************************************)
(* Strings: the operations of JavaScript the code uses on them.            *)
(***************************************************************************)
UpperChars == <<"A", "B", "C", "D", "E", "F", "G", "H", "I", "J", "K", "L", "M",
                "N", "O", "P", "Q", "R", "S", "T", "U", "V", "W", "X", "Y", "Z">>
LowerChars == <<"a", "b", "c", "d", "e", "f", "g", "h", "i", "j", "k", "l", "m",
                "n", "o", "p", "q", "r", "s", "t", "u", "v", "w", "x", "y", "z">>
DigitChars == {"0", "1", "2", "3", "4", "5", "6", "7", "8", "9"}

ToLowerChar(c) ==
    IF \E i \in 1..Len(UpperChars) : UpperChars[i] = c
    THEN LowerChars[CHOOSE i \in 1..Len(UpperChars) : UpperChars[i] = c]
    ELSE c

toLowerCase(str) == [i \in 1..Len(str) |-> ToLowerChar(str[i])]

\* [a-z0-9]
IsLowerAlnum(c) == c \in DigitChars \/ \E i \in 1..Len(LowerChars) : LowerChars[i] = c

\* str.replace(/[^a-z0-9]+/g, '_'): every run of other characters becomes one '_'
RECURSIVE ReplaceRuns(_, _)
ReplaceRuns(str, i) ==
    IF i > Len(str) THEN <<>>
    ELSE IF IsLowerAlnum(str[i]) THEN <<str[i]>> \o ReplaceRuns(str, i + 1)
    ELSE IF i > 1 /\ ~IsLowerAlnum(str[i - 1]) THEN ReplaceRuns(str, i + 1)
    ELSE <<"_">> \o ReplaceRuns(str, i + 1)

\* str.replace(/^_+|_+$/g, '') and str.trim(): strip the characters of `drop` at both ends
StripEnds(str, drop) ==
    LET keep == {i \in 1..Len(str) : str[i] \notin drop}
    IN  IF keep = {} THEN <<>>
        ELSE SubSeq(str, CHOOSE i \in keep : \A j \in keep : i <= j,
                         CHOOSE i \in keep : \A j \in keep : j <= i)

trim(str) == StripEnds(str, {" "})

\* ConfigParser.formatTitle
formatTitle(title) == StripEnds(ReplaceRuns(toLowerCase(title), 1), {"_"})

\* hay.indexOf(needle) and hay.lastIndexOf(needle), counted from 1; 0 when absent
Occurrences(hay, needle) ==
    {i \in 1..(Len(hay) - Len(needle) + 1) : SubSeq(hay, i, i + Len(needle) - 1) = needle}
indexOf(hay, needle) ==
    IF Occurrences(hay, needle) = {} THEN 0
    ELSE CHOOSE i \in Occurrences(hay, needle) : \A j \in Occurrences(hay, needle) : i <= j
lastIndexOf(hay, needle) ==
    IF Occurrences(hay, needle) = {} THEN 0
    ELSE CHOOSE i \in Occurrences(hay, needle) : \A j \in Occurrences(hay, needle) : j <= i

Arrow == <<" ", ">", " ">>
ColonSpace == <<":", " ">>
\* what `${undefined}` prints
UndefinedText == <<"u", "n", "d", "e", "f", "i", "n", "e", "d">>

(***************************************************************************)
(* ConfigParser.calculateEffectiveConfig                                   *)
(***************************************************************************)
\* a || b for strings: the empty string is falsy
OrSeq(a, b) == IF a # None /\ a[1] # <<>> THEN a ELSE b
OrText(a, b) == IF a # None /\ a[1] # "" THEN a ELSE b
\* a || b for arrays: every array is truthy
OrArray(a, b) == IF a # None THEN a ELSE b
\* a ?? b
Nullish(a, b) == IF a # None THEN a ELSE b

\* parentConfig?.field, parent being None (null) or Some(config)
OfParent(parent, k) == IF parent = None THEN None ELSE Get(parent[1], k)

\* globs inherited whenever the section has none of its own
MutInheritGlobs(sectionConfig, parentConfig) ==
    OrText(OrText(Get(sectionConfig, "globs"), None),
           OrText(OfParent(parentConfig, "globs"), None))

\* lines 65-71: own globs, or the parent's when the section has neither globs
\* nor description
InheritGlobs(sectionConfig, parentConfig) ==
    LET effectiveGlobs == OrText(Get(sectionConfig, "globs"), None)
        effectiveDescription == OrSeq(Get(sectionConfig, "description"), None)
    IN  IF effectiveGlobs = None /\ effectiveDescription = None
        THEN OrText(OfParent(parentConfig, "globs"), None)
        ELSE effectiveGlobs

\* the parent's type taking precedence over the section's own
MutInheritType(sectionConfig, parentConfig, defaultConfig) ==
    OrText(OfParent(parentConfig, "type"),
           OrText(Get(sectionConfig, "type"), defaultConfig.defaultRuleType))

\* line 76
InheritType(sectionConfig, parentConfig, defaultConfig) ==
    OrText(Get(sectionConfig, "type"),
           OrText(OfParent(parentConfig, "type"), defaultConfig.defaultRuleType))

calculateEffectiveConfig(section, parentConfig, defaultConfig) ==
    LET sectionConfig == section.config
    IN  [type |-> InheritType(sectionConfig, parentConfig, defaultConfig),
         path |-> OrSeq(Get(sectionConfig, "path"),
                        OrSeq(OfParent(parentConfig, "path"), defaultConfig.defaultRulePath)),
         globs |-> InheritGlobs(sectionConfig, parentConfig),
         description |-> OrSeq(Get(sectionConfig, "description"), None),
         projectTypes |-> OrArray(Get(sectionConfig, "projectTypes"),
                                  OrArray(OfParent(parentConfig, "projectTypes"),
                                          defaultConfig.defaultProjectTypes)),
         unifySubsections |-> Nullish(Get(sectionConfig, "unifySubsections"),
                                      Nullish(OfParent(parentConfig, "unifySubsections"),
                                              Some(FALSE)))]

(***************************************************************************)
(* RuleGenerator.generateRules for a corpus of one document.               *)
(***************************************************************************)
\* the nodes below p in the order Object.entries walks them (depth first)
RECURSIVE Walk(_, _, _)
Walk(keys, p, i) ==
    IF i > Len(keys[p]) THEN <<>>
    ELSE LET child == Append(p, keys[p][i])
         IN  <<child>> \o Walk(keys, child, 1) \o Walk(keys, p, i + 1)

NameOf(p) == p[Len(p)]

\* collectSectionNames: under every formatted name, the ancestor paths of the
\* sections bearing it, pushed in walking order after the entries already there
collectSectionNames(names, tree, keys) ==
    LET nodes == Walk(keys, <<>>, 1)
        found == {formatTitle(NameOf(nodes[i])) : i \in 1..Len(nodes)}
        pushed(n) ==
            LET mine == SelectSeq(nodes, LAMBDA q : formatTitle(NameOf(q)) = n)
            IN  [i \in 1..Len(mine) |-> Parent(mine[i])]
    IN  [n \in (DOMAIN names) \cup found |->
            (IF n \in DOMAIN names THEN names[n] ELSE <<>>)
            \o (IF n \in found THEN pushed(n) ELSE <<>>)]

\* processSection: the effective config of the node at p, resolved top-down
RECURSIVE EffectiveOf(_, _, _)
EffectiveOf(tree, defaultConfig, p) ==
    calculateEffectiveConfig(
        tree[p],
        IF Len(p) = 1 THEN None ELSE Some(EffectiveOf(tree, defaultConfig, Parent(p))),
        defaultConfig)

processSection(tree, defaultConfig, p) ==
    [name |-> NameOf(p),
     description |-> Get(tree[p].config, "description"),
     content |-> tree[p].content,
     config |-> tree[p].config,
     effectiveConfig |-> EffectiveOf(tree, defaultConfig, p)]

(***************************************************************************)
(* RuleGenerator.generateTableOfContents                                   *)
(***************************************************************************)
TocName == <<"t", "a", "b", "l", "e", "_", "o", "f", "_", "c", "o", "n", "t", "e", "n", "t", "s">>

\* the lines of a table of contents: '# Table of Contents\n', then
\* `${indent}- ${section.name}` with indent two spaces per level
TocHeaderLine == [bullet |-> FALSE, indent |-> 0, name |-> <<>>]
TocEntryLine(level, name) == [bullet |-> TRUE, indent |-> level, name |-> name]

ProjectTypesOf(rule) ==
    IF rule.effectiveConfig.projectTypes # None THEN rule.effectiveConfig.projectTypes[1]
    ELSE <<>>

HasProjectType(rule, projectType) ==
    \E k \in 1..Len(ProjectTypesOf(rule)) : ProjectTypesOf(rule)[k] = projectType

\* the key `${projectType}:${path}`: the project type, a colon, and the path, of
\* which a colon is a part of its own
TocKey(projectType, path) == <<projectType, ":">> \o path[1]

\* const [projectType, path] = key.split(':'): what stands before the first colon
\* and what stands between the first and the second
SplitKey(key) ==
    LET rest == SubSeq(key, indexOf(key, <<":">>) + 1, Len(key))
        next == indexOf(rest, <<":">>)
    IN  [projectType |-> key[1],
         path |-> Some(IF next = 0 THEN rest ELSE SubSeq(rest, 1, next - 1))]

\* the keys in the order collectRulesForProjectTypeAndPath meets them
RECURSIVE KeysFrom(_, _, _)
KeysFrom(ruleSet, nodes, i) ==
    IF i > Len(nodes) THEN <<>>
    ELSE [k \in 1..Len(ProjectTypesOf(ruleSet[nodes[i]])) |->
             TocKey(ProjectTypesOf(ruleSet[nodes[i]])[k],
                    ruleSet[nodes[i]].effectiveConfig.path)]
         \o KeysFrom(ruleSet, nodes, i + 1)

\* the keys of an object: each once, where it was first set
RECURSIVE FirstOccurrences(_, _)
FirstOccurrences(seq, i) ==
    IF i > Len(seq) THEN <<>>
    ELSE (IF \E j \in 1..(i - 1) : seq[j] = seq[i] THEN <<>> ELSE <<seq[i]>>)
         \o FirstOccurrences(seq, i + 1)

\* isTopLevel: a rule of the top level, or a subsection whose path is not its parent's
IsTopLevelForPath(ruleSet, p) ==
    Len(p) = 1 \/ ruleSet[p].effectiveConfig.path # ruleSet[Parent(p)].effectiveConfig.path

\* rulesByProjectTypeAndPath[key]: the sections pushed under this key
PathRules(ruleSet, keys, key) ==
    SelectSeq(Walk(keys, <<>>, 1),
              LAMBDA p : /\ IsTopLevelForPath(ruleSet, p)
                         /\ \E k \in 1..Len(ProjectTypesOf(ruleSet[p])) :
                               TocKey(ProjectTypesOf(ruleSet[p])[k],
                                      ruleSet[p].effectiveConfig.path) = key)

\* the subsections are not entered
MutaddSection(ruleSet, keys, key, p, level) == <<TocEntryLine(level, NameOf(p))>>

RECURSIVE addSection(_, _, _, _, _)
RECURSIVE AddSubsections(_, _, _, _, _, _)
addSection(ruleSet, keys, key, p, level) ==
    <<TocEntryLine(level, NameOf(p))>> \o AddSubsections(ruleSet, keys, key, p, level, 1)

AddSubsections(ruleSet, keys, key, p, level, i) ==
    IF i > Len(keys[p]) THEN <<>>
    ELSE LET subsection == Append(p, keys[p][i])
         IN  (IF /\ ruleSet[subsection].effectiveConfig.path = key.path
                 /\ HasProjectType(ruleSet[subsection], key.projectType)
              THEN addSection(ruleSet, keys, key, subsection, level + 1)
              ELSE <<>>)
             \o AddSubsections(ruleSet, keys, key, p, level, i + 1)

RECURSIVE TocOutline(_, _, _, _, _)
TocOutline(ruleSet, keys, key, pathRules, i) ==
    IF i > Len(pathRules) THEN <<>>
    ELSE (IF /\ ruleSet[pathRules[i]].effectiveConfig.path = key.path
             /\ HasProjectType(ruleSet[pathRules[i]], key.projectType)
          THEN addSection(ruleSet, keys, key, pathRules[i], 0)
          ELSE <<>>)
         \o TocOutline(ruleSet, keys, key, pathRules, i + 1)

TocRule(key, outline) ==
    [name |-> TocName,
     content |-> <<TocHeaderLine>> \o outline,
     config |-> [type |-> Some("always"), path |-> key.path],
     effectiveConfig |-> [type |-> Some("always"), path |-> key.path,
                          projectTypes |-> Some(<<key.projectType>>)]]

RECURSIVE TocRulesFrom(_, _, _, _)
TocRulesFrom(ruleSet, keys, tocKeys, i) ==
    IF i > Len(tocKeys) THEN <<>>
    ELSE LET split == SplitKey(tocKeys[i])
             outline == TocOutline(ruleSet, keys, split,
                                   PathRules(ruleSet, keys, tocKeys[i]), 1)
         IN  (IF outline # <<>> THEN <<TocRule(split, outline)>> ELSE <<>>)
             \o TocRulesFrom(ruleSet, keys, tocKeys, i + 1)

generateTableOfContents(ruleSet, keys) ==
    TocRulesFrom(ruleSet, keys,
                 FirstOccurrences(KeysFrom(ruleSet, Walk(keys, <<>>, 1), 1), 1), 1)

\* generateRules
\* Object.assign(allSections, sections): every top-level title of the file is set,
\* its subtree with it; a title already there keeps its place among the keys
ObjectAssign(all, tree, keys) ==
    LET titles == {keys[<<>>][i] : i \in 1..Len(keys[<<>>])}
        kept == {q \in DOMAIN all.tree : q[1] \notin titles}
        known == {all.keys[<<>>][i] : i \in 1..Len(all.keys[<<>>])}
    IN  [tree |-> [q \in kept \cup DOMAIN tree |->
                      IF q \in DOMAIN tree THEN tree[q] ELSE all.tree[q]],
         keys |-> [q \in {<<>>} \cup kept \cup DOMAIN tree |->
                      IF q = <<>>
                      THEN all.keys[<<>>] \o SelectSeq(keys[<<>>], LAMBDA t : t \notin known)
                      ELSE IF q \in DOMAIN tree THEN keys[q] ELSE all.keys[q]]]

\* the end of one turn of the loop over the files, a further file following: the
\* names of the file are collected, its sections merged, and the next is parsed
EndOfFile ==
    /\ pc = "parse"
    /\ Len(hist.files) + 1 < MaxFiles
    /\ sectionNames' = collectSectionNames(sectionNames, sections, keyOrder)
    /\ allSections' = ObjectAssign(allSections, sections, keyOrder)
    /\ sections' = NoSections.tree
    /\ keyOrder' = NoSections.keys
    /\ currentPath' = <<>>
    /\ currentConfig' = EmptyConfig
    /\ suppressConfigUntilLevel' = None
    /\ hist' = [line |-> NoLine, annLog |-> <<>>, lastHeading |-> "none",
                openLevels |-> <<>>,
                files |-> Append(hist.files, [tree |-> sections, keys |-> keyOrder])]
    /\ UNCHANGED <<nLines, pc, config, rules, tocRules, artifacts, syncVars>>

\* generateRules, from the last file on; allSections is empty when the call begins
generateRules ==
    LET merged == ObjectAssign(IF pc = "parse" THEN allSections ELSE NoSections,
                               sections, keyOrder)
        newRules == [p \in DOMAIN merged.tree |-> processSection(merged.tree, config, p)]
    IN  /\ sectionNames' = collectSectionNames(sectionNames, sections, keyOrder)
        /\ allSections' = merged
        /\ rules' = newRules
        /\ tocRules' = IF config.createTableOfContents
                       THEN generateTableOfContents(newRules, merged.keys)
                       ELSE <<>>
        /\ UNCHANGED <<parserVars, config, artifacts, syncVars>>

GenerateRules ==
    /\ pc = "parse"
    /\ generateRules
    /\ pc' = "generated"

\* generateRules called once more on the same RuleGenerator, after writeRules
GenerateRulesAgain ==
    /\ pc = "written"
    /\ generateRules
    /\ pc' = "regenerated"

(***************************************************************************)
(* FileHandler: generateDescription, writeNestedRules,                     *)
(* writeRuleForProjectType, writeRuleFiles.                                *)
(***************************************************************************)
\* name + (description ? `: ${description}` : '')
NameWithDesc(name, description) ==
    name \o (IF description # None /\ description[1] # <<>>
             THEN ColonSpace \o description[1] ELSE <<>>)

NumOccurrences(names, name) ==
    IF formatTitle(name) \in DOMAIN names THEN Len(names[formatTitle(name)]) ELSE 0

generateDescription(name, sectionPath, names, description, parentDescription) ==
    LET nameWithDesc == NameWithDesc(name, description)
        parentName == IF sectionPath = <<>> THEN UndefinedText
                      ELSE sectionPath[Len(sectionPath)]
        searchText == Arrow \o parentName
        parentPathEndIndex == indexOf(parentDescription, searchText)
        parentUniquePath ==
            IF parentPathEndIndex # 0
            THEN SubSeq(parentDescription, 1, parentPathEndIndex - 1 + Len(searchText))
            ELSE parentDescription
    IN  IF NumOccurrences(names, name) <= 1
        THEN nameWithDesc
        ELSE parentUniquePath \o Arrow \o nameWithDesc

\* lines 73-102: the breadcrumb handed to the children
hierarchicalPathForChildren(name, sectionPath, names, effectiveConfig, parentDescription) ==
    IF effectiveConfig.type = Some("agent_requested")
    THEN LET currentSectionDescription ==
                 generateDescription(name, sectionPath, names,
                                     effectiveConfig.description, parentDescription)
             colonIndex == lastIndexOf(currentSectionDescription, <<":">>)
         IN  IF colonIndex # 0 /\ effectiveConfig.description # None
             THEN trim(SubSeq(currentSectionDescription, 1, colonIndex - 1))
             ELSE currentSectionDescription
    ELSE IF parentDescription # <<>>
         THEN parentDescription \o Arrow \o name
         ELSE name

\* the description is written whenever the section has one, whatever its type
MutFrontmatter(name, sectionPath, names, effectiveConfig, parentDescription, projectType) ==
    LET type == effectiveConfig.type
    IN  [aiRulesProject |-> Some(projectType),
         alwaysApply |->
            IF type = Some("always") THEN Some(TRUE)
            ELSE IF type \in {Some("auto_attached"), Some("agent_requested"), Some("manual")}
                 THEN Some(FALSE) ELSE None,
         globs |->
            IF type = Some("auto_attached")
            THEN Some(IF effectiveConfig.globs # None THEN effectiveConfig.globs[1] ELSE "")
            ELSE None,
         description |->
            IF type = Some("agent_requested") \/ effectiveConfig.description # None
            THEN Some(generateDescription(name, sectionPath, names,
                                          effectiveConfig.description, parentDescription))
            ELSE None]

\* the frontmatter object of lines 175-201; a key that is not set is None
Frontmatter(name, sectionPath, names, effectiveConfig, parentDescription, projectType) ==
    LET type == effectiveConfig.type
    IN  [aiRulesProject |-> Some(projectType),
         alwaysApply |->
            IF type = Some("always") THEN Some(TRUE)
            ELSE IF type \in {Some("auto_attached"), Some("agent_requested"), Some("manual")}
                 THEN Some(FALSE) ELSE None,
         globs |->
            IF type = Some("auto_attached")
            THEN Some(IF effectiveConfig.globs # None THEN effectiveConfig.globs[1] ELSE "")
            ELSE None,
         description |->
            IF type = Some("agent_requested")
            THEN Some(generateDescription(name, sectionPath, names,
                                          effectiveConfig.description, parentDescription))
            ELSE None]

\* every project type of the section is written into the directory of the first
MutwriteRuleForProjectType(p, section, childKeys, effectiveConfig, defaultConfig, names, parentDescription, projectType) ==
    [node |-> p,
     projectType |-> projectType,
     type |-> effectiveConfig.type,
     parentDescription |-> parentDescription,
     rulePath |-> [projectType |-> effectiveConfig.projectTypes[1][1],
                   basePath |-> defaultConfig.basePath,
                   path |-> effectiveConfig.path,
                   folders |-> [i \in 1..(Len(p) - 1) |-> formatTitle(p[i])],
                   file |-> formatTitle(NameOf(p))],
     frontmatter |-> Frontmatter(NameOf(p), Parent(p), names, effectiveConfig,
                                 parentDescription, projectType),
     content |-> section.content,
     references |-> childKeys]

\* one call of writeRuleForProjectType: the file written and what it was written from
writeRuleForProjectType(p, section, childKeys, effectiveConfig, defaultConfig, names, parentDescription, projectType) ==
    [node |-> p,
     projectType |-> projectType,
     type |-> effectiveConfig.type,
     parentDescription |-> parentDescription,
     rulePath |-> [projectType |-> projectType,
                   basePath |-> defaultConfig.basePath,
                   path |-> effectiveConfig.path,
                   folders |-> [i \in 1..(Len(p) - 1) |-> formatTitle(p[i])],
                   file |-> formatTitle(NameOf(p))],
     frontmatter |-> Frontmatter(NameOf(p), Parent(p), names, effectiveConfig,
                                 parentDescription, projectType),
     content |-> section.content,
     references |-> childKeys]

\* process.cwd() of the generator: entrypoint.sh runs it in /tmp/ai-rules
StagingRoot == <<"tmp", "ai-rules">>

\* path.join below the root directory: '' and '.' segments vanish, '..' removes the
\* segment before it, and nothing is above the root
RECURSIVE normalize(_, _, _)
normalize(parts, i, done) ==
    IF i > Len(parts) THEN done
    ELSE IF parts[i] \in {"", "."} THEN normalize(parts, i + 1, done)
    ELSE IF parts[i] = ".."
         THEN normalize(parts, i + 1, SubSeq(done, 1, Len(done) - 1))
         ELSE normalize(parts, i + 1, Append(done, parts[i]))

\* the directory in which writeRuleForProjectType places .cursor/rules:
\* path.join(process.cwd(), projectType, config.basePath || '', effectiveConfig.path)
RuleDir(rulePath) ==
    normalize(StagingRoot \o <<rulePath.projectType>>
                  \o (IF rulePath.basePath # None THEN rulePath.basePath[1] ELSE <<>>)
                  \o (IF rulePath.path # None THEN rulePath.path[1] ELSE <<>>),
              1, <<>>)

\* writeNestedRules for the node at p and, through WriteChildren, for its subtree.
\* A top-level rule is handed its effectiveConfig as config (writeRuleFiles, line 21).
RECURSIVE writeNestedRules(_, _, _, _, _, _, _)
RECURSIVE WriteChildren(_, _, _, _, _, _, _, _)

\* an excluded section writes nothing itself, but its subsections are still visited
MutwriteNestedRules(p, ruleSet, keys, parentConfig, defaultConfig, names, parentDescription) ==
    LET rule == ruleSet[p]
        section == [config |-> IF Len(p) = 1 THEN rule.effectiveConfig ELSE rule.config,
                    content |-> rule.content]
        effectiveConfig == calculateEffectiveConfig(section, parentConfig, defaultConfig)
        projectTypes == IF effectiveConfig.projectTypes # None
                        THEN effectiveConfig.projectTypes[1] ELSE <<>>
        forChildren == hierarchicalPathForChildren(NameOf(p), Parent(p), names,
                                                   effectiveConfig, parentDescription)
    IN  (IF effectiveConfig.type = Some("excluded")
         THEN <<>>
         ELSE [i \in 1..Len(projectTypes) |->
                  writeRuleForProjectType(p, section, keys[p], effectiveConfig, defaultConfig,
                                          names, parentDescription, projectTypes[i])])
        \o WriteChildren(p, 1, ruleSet, keys, effectiveConfig, defaultConfig, names,
                         forChildren)

writeNestedRules(p, ruleSet, keys, parentConfig, defaultConfig, names, parentDescription) ==
    LET rule == ruleSet[p]
        section == [config |-> IF Len(p) = 1 THEN rule.effectiveConfig ELSE rule.config,
                    content |-> rule.content]
        effectiveConfig == calculateEffectiveConfig(section, parentConfig, defaultConfig)
        projectTypes == IF effectiveConfig.projectTypes # None
                        THEN effectiveConfig.projectTypes[1] ELSE <<>>
        forChildren == hierarchicalPathForChildren(NameOf(p), Parent(p), names,
                                                   effectiveConfig, parentDescription)
    IN  IF effectiveConfig.type = Some("excluded")
        THEN <<>>
        ELSE [i \in 1..Len(projectTypes) |->
                 writeRuleForProjectType(p, section, keys[p], effectiveConfig, defaultConfig,
                                         names, parentDescription, projectTypes[i])]
             \o WriteChildren(p, 1, ruleSet, keys, effectiveConfig, defaultConfig, names,
                              forChildren)

WriteChildren(p, i, ruleSet, keys, effectiveConfig, defaultConfig, names, forChildren) ==
    IF i > Len(keys[p]) THEN <<>>
    ELSE writeNestedRules(Append(p, keys[p][i]), ruleSet, keys, Some(effectiveConfig),
                          defaultConfig, names, forChildren)
         \o WriteChildren(p, i + 1, ruleSet, keys, effectiveConfig, defaultConfig, names,
                          forChildren)

\* every section is resolved as if it had no parent
MutRendererConfig(ruleSet, defaultConfig, p) ==
    calculateEffectiveConfig(
        [config |-> IF Len(p) = 1 THEN ruleSet[p].effectiveConfig ELSE ruleSet[p].config],
        None, defaultConfig)

\* the effectiveConfig that writeNestedRules computes for the node at p: a top-level
\* rule is resolved from its recorded effectiveConfig without a parent, a subsection
\* from its own config and the effectiveConfig computed for its parent
RECURSIVE RendererConfig(_, _, _)
RendererConfig(ruleSet, defaultConfig, p) ==
    calculateEffectiveConfig(
        [config |-> IF Len(p) = 1 THEN ruleSet[p].effectiveConfig ELSE ruleSet[p].config],
        IF Len(p) = 1 THEN None ELSE Some(RendererConfig(ruleSet, defaultConfig, Parent(p))),
        defaultConfig)

\* writeRuleFiles: every top-level rule in turn
RECURSIVE writeRuleFiles(_, _, _, _, _)
writeRuleFiles(i, ruleSet, keys, defaultConfig, names) ==
    IF i > Len(keys[<<>>]) THEN <<>>
    ELSE writeNestedRules(<<keys[<<>>][i]>>, ruleSet, keys, None, defaultConfig, names, <<>>)
         \o writeRuleFiles(i + 1, ruleSet, keys, defaultConfig, names)

\* writeNestedRules for the i-th table_of_contents rule and those after it: each is
\* a top-level rule without sections
RECURSIVE WriteTocRules(_, _, _, _)
WriteTocRules(i, tocs, defaultConfig, names) ==
    IF i > Len(tocs) THEN <<>>
    ELSE writeNestedRules(<<TocName>>,
                          [q \in {<<TocName>>} |->
                              [config |-> tocs[i].config,
                               effectiveConfig |-> tocs[i].effectiveConfig,
                               content |-> tocs[i].content]],
                          [q \in {<<>>, <<TocName>>} |->
                              IF q = <<>> THEN <<TocName>> ELSE <<>>],
                          None, defaultConfig, names, <<>>)
         \o WriteTocRules(i + 1, tocs, defaultConfig, names)

\* RuleGenerator.writeRules: the table_of_contents rules were put in front of the
\* others
writeRules ==
    /\ artifacts' = WriteTocRules(1, tocRules, config, sectionNames)
                    \o writeRuleFiles(1, rules, allSections.keys, config, sectionNames)
    /\ UNCHANGED <<parserVars, config, rules, tocRules, sectionNames, allSections, syncVars>>

WriteRules ==
    /\ pc = "generated"
    /\ writeRules
    /\ pc' = "written"

\* writeRules after the second generateRules
WriteRulesAgain ==
    /\ pc = "regenerated"
    /\ writeRules
    /\ pc' = "rewritten"

(***************************************************************************)
(* Inputs of the compiler specifications.                                  *)
(***************************************************************************)
\* DEFAULT_CONFIG overlaid with a configuration file that turns the table of
\* contents off
DefaultConfig ==
    [defaultRuleType |-> Some("agent_requested"),
     defaultRulePath |-> Some(<<>>),
     basePath |-> Some(<<>>),
     defaultProjectTypes |-> Some(<<"general">>),
     createTableOfContents |-> FALSE]

Configs ==
    {DefaultConfig,
     [DefaultConfig EXCEPT !.defaultRuleType = Some("always"),
                           !.defaultRulePath = Some(<<"docs">>)]}

InitCompile ==
    /\ pc = "parse"
    /\ InitParser
    /\ config \in Configs
    /\ rules = [p \in {} |-> 0]
    /\ tocRules = <<>>
    /\ allSections = NoSections
    /\ sectionNames = [n \in {} |-> <<>>]
    /\ artifacts = <<>>
    /\ InitIdleSync

MaxResolveLines == 4

ResolveAnnotations ==
    {[NoAttrs EXCEPT !.type = Some("always"), !.path = Some(<<"x">>)],
     AttrType("excluded"),
     [NoAttrs EXCEPT !.type = Some("auto_attached"), !.globs = Some("*.ts"),
                     !.projectTypes = Some([valid |-> TRUE, value |-> <<"web", "api">>])],
     [NoAttrs EXCEPT !.type = Some("manual"), !.description = Some(Str1("d"))],
     [NoAttrs EXCEPT !.description = Some(Str3("a", ":", "b"))],
     AttrPath(<<"..", "..">>)}

ResolveHeading ==
    /\ nLines < MaxResolveLines
    /\ \E level \in 1..MaxLevel, title \in ParseTitles : Heading(level, title)

ResolveAnnotation ==
    /\ nLines < MaxResolveLines
    /\ \E attrs \in ResolveAnnotations : Annotation(attrs)

NextResolve ==
    \/ ResolveHeading
    \/ ResolveAnnotation
    \/ GenerateRules
    \/ WriteRules

SpecResolve == InitCompile /\ [][NextResolve]_vars

(***************************************************************************)
(* The compiler on the Guide/Setup document and on the documents made of   *)
(* some of its lines, in their order.                                      *)
(***************************************************************************)
GuideTitle == <<"G", "u", "i", "d", "e">>
SetupTitle == <<"S", "e", "t", "u", "p">>

ScenarioDocument ==
    <<HeadingLine(1, GuideTitle),
      AnnotationLine(AttrType("always")),
      TextLine("Intro text"),
      HeadingLine(2, SetupTitle),
      AnnotationLine(AttrType("agent_requested")),
      TextLine("Setup text")>>

\* DEFAULT_CONFIG with defaultRulePath 'docs', and the same with the table of
\* contents turned off
ScenarioConfig ==
    [defaultRuleType |-> Some("agent_requested"),
     defaultRulePath |-> Some(<<"docs">>),
     basePath |-> Some(<<>>),
     defaultProjectTypes |-> Some(<<"general">>),
     createTableOfContents |-> TRUE]

ScenarioConfigs ==
    {ScenarioConfig, [ScenarioConfig EXCEPT !.createTableOfContents = FALSE]}

InitScenario ==
    /\ pc = "parse"
    /\ InitParser
    /\ config \in ScenarioConfigs
    /\ rules = [p \in {} |-> 0]
    /\ tocRules = <<>>
    /\ allSections = NoSections
    /\ sectionNames = [n \in {} |-> <<>>]
    /\ artifacts = <<>>
    /\ InitIdleSync

\* the place in ScenarioDocument of the line read last
ScenarioPosition ==
    IF hist.line = NoLine THEN 0
    ELSE CHOOSE i \in 1..Len(ScenarioDocument) : ScenarioDocument[i] = hist.line

\* the lines still to come, of one kind
ScenarioAhead(kind) ==
    {i \in (ScenarioPosition + 1)..Len(ScenarioDocument) : ScenarioDocument[i].kind = kind}

ScenarioHeading ==
    \E i \in ScenarioAhead("heading") :
        Heading(ScenarioDocument[i].level, ScenarioDocument[i].title)

ScenarioAnnotation ==
    \E i \in ScenarioAhead("annotation") : Annotation(ScenarioDocument[i].attrs)

ScenarioContent ==
    \E i \in ScenarioAhead("text") : Content(ScenarioDocument[i].text)

NextScenario ==
    \/ ScenarioHeading
    \/ ScenarioAnnotation
    \/ ScenarioContent
    \/ GenerateRules
    \/ WriteRules

SpecScenario == InitScenario /\ [][NextScenario]_vars

(***************************************************************************)
(* The compiler with the table of contents, on documents whose titles      *)
(* share a file name and whose paths and project types differ.             *)
(***************************************************************************)
MaxTocLines == 3

TitleLowerA == Str1("a")
TocTitles == {TitleA, TitleLowerA}

\* path="x", path="x/:/y", projectTypes='["web"]', type="excluded"
TocAnnotations ==
    {AttrPath(<<"x">>),
     AttrPath(<<"x", ":", "y">>),
     [NoAttrs EXCEPT !.projectTypes = Some([valid |-> TRUE, value |-> <<"web">>])],
     AttrType("excluded")}

TocHeading ==
    /\ nLines < MaxTocLines
    /\ \E level \in 1..MaxLevel, title \in TocTitles : Heading(level, title)

TocAnnotation ==
    /\ nLines < MaxTocLines
    /\ \E attrs \in TocAnnotations : Annotation(attrs)

NextToc ==
    \/ TocHeading
    \/ TocAnnotation
    \/ GenerateRules
    \/ WriteRules

SpecToc == InitScenario /\ [][NextToc]_vars

\* the same on a corpus of several files
NextCorpus ==
    \/ TocHeading
    \/ TocAnnotation
    \/ EndOfFile
    \/ GenerateRules
    \/ WriteRules

SpecCorpus == InitScenario /\ [][NextCorpus]_vars

(***************************************************************************)
(* The header of a rule file: written by writeRuleForProjectType as one    *)
(* line `key: value` per entry of the frontmatter, read back by            *)
(* findExistingRules with matter(content).  A text is the sequence of its  *)
(* characters; a project type or a glob, which holds neither a double      *)
(* quote nor a backslash, is one item of the sequence.                     *)
(***************************************************************************)
DoubleQuote == "\""

\* `${key}: "${value}"`: the value between double quotes, nothing escaped
QuotedText(value) == <<DoubleQuote>> \o value \o <<DoubleQuote>>

\* frontmatterEntries: the entries of the frontmatter in the order the keys were set
frontmatterEntries(fm) ==
    <<[key |-> "ai-rules-project", text |-> QuotedText(<<fm.aiRulesProject[1]>>)]>>
    \o (IF fm.globs # None
        THEN <<[key |-> "globs", text |-> QuotedText(<<fm.globs[1]>>)]>> ELSE <<>>)
    \o (IF fm.description # None
        THEN <<[key |-> "description", text |-> QuotedText(fm.description[1])]>> ELSE <<>>)
    \o (IF fm.alwaysApply # None
        THEN <<[key |-> "alwaysApply",
                text |-> <<IF fm.alwaysApply[1] THEN "true" ELSE "false">>]>>
        ELSE <<>>)

\* the YAML reader on the value of one line: a value that opens with a double
\* quote ends at the next double quote, and only blanks may follow it on the
\* line; None when the reader throws
ReadScalar(text) ==
    IF text # <<>> /\ text[1] = DoubleQuote
    THEN LET rest == SubSeq(text, 2, Len(text))
             close == indexOf(rest, <<DoubleQuote>>)
         IN  IF close = 0 THEN None
             ELSE IF \A i \in (close + 1)..Len(rest) : rest[i] = " "
                  THEN Some(SubSeq(rest, 1, close - 1))
                  ELSE None
    ELSE Some(text)

\* matter(content).data: the value of every key, or None when a line cannot be read
matter(entries) ==
    IF \E i \in 1..Len(entries) : ReadScalar(entries[i].text) = None
    THEN None
    ELSE Some([k \in {entries[i].key : i \in 1..Len(entries)} |->
                  ReadScalar((CHOOSE e \in {entries[i] : i \in 1..Len(entries)} :
                                 e.key = k).text)[1]])

\* documents whose titles may hold a double quote: '# A' and '# A"B'
TitleQuoted == Str3("A", DoubleQuote, "B")
HeaderTitles == {TitleA, TitleQuoted}

HeaderHeading ==
    /\ nLines < MaxTocLines
    /\ \E level \in 1..MaxLevel, title \in HeaderTitles : Heading(level, title)

NextHeader ==
    \/ HeaderHeading
    \/ TocAnnotation
    \/ GenerateRules
    \/ WriteRules

SpecHeader == InitScenario /\ [][NextHeader]_vars

\* the same RuleGenerator compiling its documents a second time
NextRerun ==
    \/ ResolveHeading
    \/ ResolveAnnotation
    \/ GenerateRules
    \/ WriteRules
    \/ GenerateRulesAgain
    \/ WriteRulesAgain

SpecRerun == InitCompile /\ [][NextRerun]_vars

(***************************************************************************)
(* Claims about the section tree builder.                                  *)
(***************************************************************************)
Declares(attrs, f) == attrs[f] # None
DeclaredIn(log, f) == {i \in 1..Len(log) : Declares(log[i], f)}
LastOf(S) == CHOOSE i \in S : \A j \in S : j <= i

\* C1: the raw config of the open node is the field-by-field merge of the
\* annotations seen under its heading: every field some annotation declared has
\* the value given by the last annotation that declared it.
C1_FieldwiseMerge ==
    (HasOpen /\ hist.annLog # <<>>) =>
        \A f \in ConfigKeys :
            DeclaredIn(hist.annLog, f) # {} =>
                Get(sections[currentPath].config, f) =
                    parseConfigAttributes(hist.annLog[LastOf(DeclaredIn(hist.annLog, f))])[f]

NoChildOfUnifier(tree) ==
    \A p \in DOMAIN tree : Len(p) > 1 => ~IsUnifier(tree, Parent(p))

OthersUnchanged(owner) ==
    /\ DOMAIN sections' = DOMAIN sections
    /\ \A p \in DOMAIN sections :
          /\ sections'[p].config = sections[p].config
          /\ p # owner => sections'[p].content = sections[p].content

\* the lines a step added to the content of node p
Added(p) == SubSeq(sections'[p].content, Len(sections[p].content) + 1, Len(sections'[p].content))

C2_Step ==
    /\ NoChildOfUnifier(sections')
    /\ \A k \in 1..Len(currentPath) :
          LET owner == Prefix(currentPath, k)
          IN  IsUnifier(sections, owner) =>
                /\ (hist'.line.kind = "heading" /\ hist'.line.level > hist.openLevels[k]) =>
                      /\ OthersUnchanged(owner)
                      /\ IsPrefix(sections[owner].content, sections'[owner].content)
                      /\ Added(owner) # <<>>
                      /\ Added(owner)[Len(Added(owner))] = hist'.line
                      /\ \A i \in 1..(Len(Added(owner)) - 1) : Added(owner)[i] = BlankLine
                /\ hist'.line.kind = "text" =>
                      /\ OthersUnchanged(owner)
                      /\ sections'[owner].content = Append(sections[owner].content, hist'.line)

C3_Step ==
    /\ hist'.lastHeading = "opened" => suppressConfigUntilLevel' = None
    /\ hist'.lastHeading = "absorbed" => suppressConfigUntilLevel' # None
    /\ hist'.line.kind = "annotation" =>
          /\ hist.lastHeading = "absorbed" =>
                /\ sections' = sections
                /\ currentConfig' = currentConfig
          /\ hist.lastHeading = "opened" =>
                /\ DOMAIN sections' = DOMAIN sections
                /\ \A p \in DOMAIN sections : p # currentPath => sections'[p] = sections[p]
                /\ \A f \in ConfigKeys :
                      Declares(hist'.line.attrs, f) =>
                          Get(sections'[currentPath].config, f) =
                              parseConfigAttributes(hist'.line.attrs)[f]

\* C3: an annotation after an absorbed heading (and before the next heading that
\* opens a node) changes no raw config; after a heading that opens a node the
\* suppression is over and an annotation is applied to that node.
C3_InertAnnotations == [][C3_Step]_vars

\* an annotation was just discarded inside a flattened subtree
C3_Witness ==
    /\ hist.lastHeading = "absorbed"
    /\ hist.line.kind = "annotation"
    /\ suppressConfigUntilLevel # None

(***************************************************************************)
(* Claims about the config resolver and the exclusion of sections.         *)
(***************************************************************************)
Resolved == pc \in {"generated", "written"}

CorpusDefault(f) ==
    IF f = "type" THEN config.defaultRuleType
    ELSE IF f = "path" THEN config.defaultRulePath
    ELSE config.defaultProjectTypes

\* C4: type, path and projectTypes of every node resolve independently to the
\* node's declared value, else the parent's effective value, else the corpus default.
C4_Inheritance ==
    Resolved =>
        \A p \in DOMAIN rules : \A f \in {"type", "path", "projectTypes"} :
            rules[p].effectiveConfig[f] =
                IF Get(rules[p].config, f) # None THEN Get(rules[p].config, f)
                ELSE IF Len(p) > 1 THEN rules[Parent(p)].effectiveConfig[f]
                ELSE CorpusDefault(f)

\* a node two levels below a root that declares no type and has the type its root
\* declared, the corpus default being another one
C4_Witness ==
    /\ pc = "generated"
    /\ \E p \in DOMAIN rules :
          /\ Len(p) = 3
          /\ Get(rules[p].config, "type") = None
          /\ Get(rules[Parent(p)].config, "type") = None
          /\ Get(rules[Prefix(p, 1)].config, "type") = Some("always")
          /\ rules[p].effectiveConfig.type = Some("always")
          /\ config.defaultRuleType # Some("always")

\* C5: a node's effective globs are its own when it declares globs, absent when it
\* declares a description only, and its parent's effective globs when it declares
\* neither; its effective description is the one it declares, or absent.
C5_GlobsAndDescription ==
    Resolved =>
        \A p \in DOMAIN rules :
            LET own == rules[p].config
                parentGlobs == IF Len(p) > 1 THEN rules[Parent(p)].effectiveConfig.globs
                               ELSE None
            IN  /\ rules[p].effectiveConfig.description = Get(own, "description")
                /\ rules[p].effectiveConfig.globs =
                      IF Get(own, "globs") # None THEN Get(own, "globs")
                      ELSE IF Get(own, "description") # None THEN None
                      ELSE parentGlobs

\* a node that declares a description and no globs under a parent with globs
C5_Witness ==
    /\ pc = "generated"
    /\ \E p \in DOMAIN rules :
          /\ Len(p) > 1
          /\ rules[Parent(p)].effectiveConfig.globs # None
          /\ Get(rules[p].config, "description") # None
          /\ Get(rules[p].config, "globs") = None
          /\ rules[p].effectiveConfig.globs = None

WrittenFor(p) == {i \in 1..Len(artifacts) : artifacts[i].node = p}

\* C6: a node whose effective type is excluded has no artifact, and no node of
\* its subtree has one, whatever type the descendant declares.
C6_ExclusionPropagates ==
    pc = "written" =>
        \A p \in DOMAIN rules :
            rules[p].effectiveConfig.type = Some("excluded") =>
                \A q \in DOMAIN rules : IsPrefix(p, q) => WrittenFor(q) = {}

\* an excluded node with a child that declares type always, after the write
C6_Witness ==
    /\ pc = "written"
    /\ \E p \in DOMAIN rules, q \in DOMAIN rules :
          /\ IsStrictPrefix(p, q)
          /\ rules[p].effectiveConfig.type = Some("excluded")
          /\ Get(rules[q].config, "type") = Some("always")
          /\ WrittenFor(p) = {} /\ WrittenFor(q) = {}

(***************************************************************************)
(* Delivery to a target repository: RuleCleanupHandler and                 *)
(* copyRulesToRepo.js.  A file system is a function from the path of a     *)
(* file, relative to its root, to the ai-rules-project value of its        *)
(* frontmatter; a path is the sequence of its segments.                    *)
(***************************************************************************)
CursorDir == ".cursor"
RulesDir == "rules"

\* the names fd leaves out: it does not enter hidden directories
HiddenNames == {CursorDir}

\* FileHandler.writeRuleForProjectType: the file written, relative to the directory
\* the generator runs in
RulePathOf(projectType, basePath, path, folders, fileName) ==
    <<projectType>> \o basePath \o path \o <<CursorDir, RulesDir>> \o folders \o <<fileName>>

AncestorDirs(f) == {Prefix(f, k) : k \in 1..(Len(f) - 1)}

\* findMdcFiles: the first of fd, find and the JavaScript walk that runs
findMdcFiles(files, method) ==
    IF method = "fd"
    THEN {f \in DOMAIN files : \A i \in 1..Len(f) : f[i] \notin HiddenNames}
    ELSE DOMAIN files

\* every discovered file is kept, whatever project it belongs to
MutfindExistingRules(files, configuredProjectTypes, method, unreadable) ==
    {f \in findMdcFiles(files, method) \ unreadable : files[f] # None}

\* findExistingRules: the relative paths of the rules kept; a file whose read or
\* parse throws is passed over
findExistingRules(files, configuredProjectTypes, method, unreadable) ==
    {f \in findMdcFiles(files, method) \ unreadable :
        /\ files[f] # None
        /\ \E i \in 1..Len(configuredProjectTypes) : configuredProjectTypes[i] = files[f][1]}

getCurrentRulePaths(generated, method) == findMdcFiles(generated, method)

\* this.targetDir, the directory every path of the checkout is relative to
TargetDir == <<>>

\* the walk upward without the test for the root directory
RECURSIVE MutcleanupEmptyDirectories(_, _, _, _)
MutcleanupEmptyDirectories(dirPath, files, dirs, failing) ==
    IF dirPath \notin dirs \/ dirPath \in failing THEN dirs
    ELSE IF \E e \in files \cup dirs : Len(e) > 0 /\ Parent(e) = dirPath THEN dirs
    ELSE MutcleanupEmptyDirectories(Parent(dirPath), files, dirs \ {dirPath}, failing)

\* cleanupEmptyDirectories: rmdir while the directory is not the root and readdir
\* finds nothing in it; an error ends the walk
RECURSIVE cleanupEmptyDirectories(_, _, _, _)
cleanupEmptyDirectories(dirPath, files, dirs, failing) ==
    IF dirPath = TargetDir \/ dirPath \notin dirs \/ dirPath \in failing THEN dirs
    ELSE IF \E e \in files \cup dirs : Len(e) > 0 /\ Parent(e) = dirPath THEN dirs
    ELSE cleanupEmptyDirectories(Parent(dirPath), files, dirs \ {dirPath}, failing)

\* the loop with one try block around it: the first unlink that throws ends it
RECURSIVE MutDeleteOrphans(_, _, _, _)
MutDeleteOrphans(existing, current, fs, faults) ==
    IF existing = {} THEN fs
    ELSE LET rule == CHOOSE f \in existing : TRUE
             left == fs.files \ {rule}
         IN  IF rule \notin current /\ rule \in faults.unlink THEN fs
             ELSE MutDeleteOrphans(existing \ {rule}, current,
                      IF rule \notin current
                      THEN [files |-> left,
                            dirs |-> cleanupEmptyDirectories(Parent(rule), left, fs.dirs,
                                                             faults.rmdir),
                            deleted |-> fs.deleted \cup {rule}]
                      ELSE fs,
                      faults)

\* the loop of cleanupOrphanedRules over the existing rules: [files, dirs, deleted];
\* an unlink that throws leaves the rule and goes on with the next
RECURSIVE DeleteOrphans(_, _, _, _)
DeleteOrphans(existing, current, fs, faults) ==
    IF existing = {} THEN fs
    ELSE LET rule == CHOOSE f \in existing : TRUE
             left == fs.files \ {rule}
         IN  DeleteOrphans(existing \ {rule}, current,
                 IF rule \notin current /\ rule \notin faults.unlink
                 THEN [files |-> left,
                       dirs |-> cleanupEmptyDirectories(Parent(rule), left, fs.dirs,
                                                        faults.rmdir),
                       deleted |-> fs.deleted \cup {rule}]
                 ELSE fs,
                 faults)

cleanupOrphanedRules(files, dirs, generated, configuredProjectTypes, method, faults) ==
    DeleteOrphans(findExistingRules(files, configuredProjectTypes, method, faults.read),
                  getCurrentRulePaths(generated, method),
                  [files |-> DOMAIN files, dirs |-> dirs, deleted |-> {}],
                  faults)

\* performCleanup, the first step of main
Cleanup ==
    /\ pc = "deliver"
    /\ LET after == cleanupOrphanedRules(targetFiles, targetDirs, stagedFiles,
                                         env.projectTypes, env.discovery, env.faults)
       IN  /\ targetFiles' = [f \in after.files |-> targetFiles[f]]
           /\ targetDirs' = after.dirs
           /\ deletedFiles' = after.deleted
    /\ pc' = "cleaned"
    /\ UNCHANGED <<parserVars, compileVars, stagedFiles, env, host>>

\* sourceBaseDir as the entry point passes it, split at '/'
SourceBaseParts == <<"", "tmp", "ai-rules">>

KnownProjectTypeDirs == {"general", "react", "typescript", "nodejs", "api"}

FirstIndex(parts, S) ==
    IF \E i \in 1..Len(parts) : parts[i] \in S
    THEN CHOOSE i \in 1..Len(parts) :
            parts[i] \in S /\ \A j \in 1..(i - 1) : parts[j] \notin S
    ELSE 0

\* getTargetPathFromProjectType, on the parts of the path; indices count from 1 and
\* 0 stands for -1
getTargetPathFromProjectType(parts) ==
    LET byName == FirstIndex(parts, KnownProjectTypeDirs)
        cursorTestIndex == FirstIndex(parts, {CursorDir})
        candidates == {i \in 1..(cursorTestIndex - 1) :
                          parts[i] \notin {"ai-rules", "..", ""} /\ i + 1 < cursorTestIndex}
        byPattern == IF cursorTestIndex > 1 /\ candidates # {}
                     THEN CHOOSE i \in candidates : \A j \in candidates : j <= i
                     ELSE 0
        projectTypeIndex == IF byName # 0 THEN byName ELSE byPattern
    IN  IF projectTypeIndex # 0 /\ cursorTestIndex > projectTypeIndex
        THEN SubSeq(parts, projectTypeIndex + 1, cursorTestIndex - 1) \o <<CursorDir>>
        ELSE <<CursorDir>>

\* findCursorTestDirs: the .cursor directories under the directory of a project type
findCursorTestDirs(generated, projectType) ==
    {Prefix(f, FirstIndex(f, {CursorDir})) :
        f \in {g \in DOMAIN generated : g[1] = projectType /\ FirstIndex(g, {CursorDir}) > 1}}

\* where copyDir puts the generated file f of the .cursor directory dir
CopyTarget(f, dir, effectiveTargetBaseDir) ==
    effectiveTargetBaseDir \o getTargetPathFromProjectType(SourceBaseParts \o dir)
        \o SubSeq(f, Len(dir) + 1, Len(f))

\* the files one project type contributes: target path -> frontmatter value
CopiesOf(generated, projectType, effectiveTargetBaseDir) ==
    LET sources == {f \in DOMAIN generated :
                       \E dir \in findCursorTestDirs(generated, projectType) : IsPrefix(dir, f)}
        dirOf(f) == Prefix(f, FirstIndex(f, {CursorDir}))
        targetOf(f) == CopyTarget(f, dirOf(f), effectiveTargetBaseDir)
    IN  [t \in {targetOf(f) : f \in sources} |->
            generated[CHOOSE f \in sources : targetOf(f) = t]]

Overlay(files, copies) ==
    [f \in DOMAIN files \cup DOMAIN copies |->
        IF f \in DOMAIN copies THEN copies[f] ELSE files[f]]

\* the loop of main over targetProjectTypes, from the i-th on
RECURSIVE CopyRules(_, _, _, _, _)
CopyRules(i, targetProjectTypes, generated, files, effectiveTargetBaseDir) ==
    IF i > Len(targetProjectTypes) THEN files
    ELSE CopyRules(i + 1, targetProjectTypes, generated,
                   Overlay(files, CopiesOf(generated, targetProjectTypes[i],
                                           effectiveTargetBaseDir)),
                   effectiveTargetBaseDir)

\* BranchStrategyHandler.getStrategyForRepo: the basePath of the strategy, which
\* is the one of the configuration file when the strategy gives none
getStrategyForRepo(e) ==
    IF e.strategyBasePath # None THEN e.strategyBasePath[1] ELSE e.basePath

\* path.join(targetBaseDir, repoBasePath), targetBaseDir being the checkout
effectiveTargetBaseDir == getStrategyForRepo(env)

\* the copy phase of main
Copy ==
    /\ pc = "cleaned"
    /\ targetFiles' = CopyRules(1, env.projectTypes, stagedFiles, targetFiles,
                              effectiveTargetBaseDir)
    /\ targetDirs' = targetDirs \cup UNION {AncestorDirs(f) : f \in DOMAIN targetFiles'}
    /\ pc' = "copied"
    /\ UNCHANGED <<parserVars, compileVars, stagedFiles, env, deletedFiles, host>>

(***************************************************************************)
(* Inputs of the delivery specification.                                   *)
(***************************************************************************)
MaxStaged == 2
MaxDelivered == 2

SyncTags == {"general", "web"}
SyncNames == {"a.mdc", "b.mdc"}
SyncPaths == {<<>>, <<"docs">>}
SyncProjectTypes == {<<"general">>, <<"web">>, <<"general", "web">>}
SyncBasePaths == {<<>>, <<"base">>}
SyncStrategyBasePaths == {None, Some(<<"pkg">>)}
Discoveries == {"fd", "find", "js"}

\* what a generation can leave in the working directory
GeneratedFiles(basePath) ==
    {[t \in {RulePathOf(r[1], basePath, r[2], <<>>, r[3])} |-> Some(r[1])] :
        r \in SyncTags \X SyncPaths \X SyncNames}

\* what an earlier delivery, or a hand, can have left under the base path
DeliveredFiles(basePath) ==
    {[t \in {basePath \o r[1] \o <<CursorDir, RulesDir, r[2]>>} |-> r[3]] :
        r \in SyncPaths \X SyncNames \X ({None} \cup {Some(tag) : tag \in SyncTags})}

Merge(f, g) == [x \in DOMAIN f \cup DOMAIN g |-> IF x \in DOMAIN f THEN f[x] ELSE g[x]]

RECURSIVE FileSystems(_, _)
FileSystems(single, n) ==
    IF n = 0 THEN {<<>>}
    ELSE LET smaller == FileSystems(single, n - 1)
         IN  smaller \cup {Merge(fs, one) : fs \in smaller, one \in single}

InitSync ==
    /\ pc = "deliver"
    /\ InitParser
    /\ InitIdleCompile
    /\ env \in [projectTypes : SyncProjectTypes, basePath : SyncBasePaths,
                strategyBasePath : SyncStrategyBasePaths,
                discovery : Discoveries, faults : {NoFaults}]
    /\ stagedFiles \in FileSystems(GeneratedFiles(env.basePath), MaxStaged)
    /\ targetFiles \in FileSystems(DeliveredFiles(getStrategyForRepo(env)), MaxDelivered)
    /\ targetDirs = {TargetDir} \cup UNION {AncestorDirs(f) : f \in DOMAIN targetFiles}
    /\ deletedFiles = {}
    /\ host = NoHost

NextSync == Cleanup \/ Copy

SpecSync == InitSync /\ [][NextSync]_vars

\* one file operation of the cleanup throws, or none
Faults(files, dirs) ==
    {NoFaults}
    \cup {[NoFaults EXCEPT !.unlink = {f}] : f \in files}
    \cup {[NoFaults EXCEPT !.read = {f}] : f \in files}
    \cup {[NoFaults EXCEPT !.rmdir = {d}] : d \in dirs \ {TargetDir}}

\* a delivery for both project types, without base paths
InitFaults ==
    /\ pc = "deliver"
    /\ InitParser
    /\ InitIdleCompile
    /\ stagedFiles \in FileSystems(GeneratedFiles(<<>>), MaxStaged)
    /\ targetFiles \in FileSystems(DeliveredFiles(<<>>), MaxDelivered)
    /\ targetDirs = {TargetDir} \cup UNION {AncestorDirs(f) : f \in DOMAIN targetFiles}
    /\ env \in [projectTypes : {<<"general", "web">>}, basePath : {<<>>},
                strategyBasePath : {None}, discovery : {"find", "js"},
                faults : Faults(DOMAIN targetFiles, targetDirs)]
    /\ deletedFiles = {}
    /\ host = NoHost

SpecFaults == InitFaults /\ [][NextSync]_vars

(***************************************************************************)
(* The entry point: entrypoint.sh runs under set -e and loops over the     *)
(* keys of config.exports; for each it validates the branch strategy,      *)
(* clones the repository and runs copyRulesToRepo.js in the checkout.      *)
(***************************************************************************)
MaxRepos == 2

\* the characters of a path segment; a segment the table does not list is a word
\* of letters and digits, which stands for itself
SegmentChars(s) ==
    CASE s = "a:b" -> <<"a", ":", "b">>
      [] s = ".." -> <<".", ".">>
      [] s = "" -> <<>>
      [] OTHER -> <<s>>

\* const invalidChars = /[<>:"|?*]/
InvalidChars == {"<", ">", ":", "\"", "|", "?", "*"}

\* path.isAbsolute of a path split at '/': it starts with a slash
isAbsolute(parts) == Len(parts) > 1 /\ parts[1] = ""

\* BranchStrategyHandler.validateStrategy for a strategy with a valid mode, branch
\* name and target branch: TRUE when it returns, FALSE when it throws
validateStrategy(basePath) ==
    /\ ~\E i \in 1..Len(basePath) :
           \E j \in 1..Len(SegmentChars(basePath[i])) :
               SegmentChars(basePath[i])[j] \in InvalidChars
    /\ ~isAbsolute(basePath)

\* git clone: the checkout holds one rule of an earlier delivery
ClonedFiles == [f \in {<<CursorDir, RulesDir, "b.mdc">>} |-> Some("general")]

\* one turn of the loop up to the call of copyRulesToRepo.js. The strategy is
\* validated inside STRATEGY_JSON=$(node -e ...): when validateStrategy throws,
\* the assignment has a non-zero status and set -e ends the shell.
NextRepository ==
    /\ pc = "host"
    /\ host.exit = None
    /\ host.index < Len(host.exports)
    /\ LET repo == host.exports[host.index + 1]
           strategy == [env EXCEPT !.projectTypes = repo.projectTypes,
                                   !.strategyBasePath = repo.basePath]
       IN  IF validateStrategy(getStrategyForRepo(strategy))
           THEN /\ host' = [host EXCEPT !.index = @ + 1]
                /\ env' = strategy
                /\ targetFiles' = ClonedFiles
                /\ targetDirs' = {TargetDir} \cup AncestorDirs(<<CursorDir, RulesDir, "b.mdc">>)
                /\ deletedFiles' = {}
                /\ pc' = "cloned"
           ELSE /\ host' = [host EXCEPT !.index = @ + 1, !.exit = Some(1)]
                /\ pc' = "exited"
                /\ UNCHANGED <<targetFiles, targetDirs, env, deletedFiles>>
    /\ UNCHANGED <<parserVars, compileVars, stagedFiles>>

\* copyRulesToRepo.js up to the cleanup: without project types for the repository
\* it ends with process.exit(1), and set -e ends the shell with it
CheckProjectTypes ==
    /\ pc = "cloned"
    /\ IF Len(env.projectTypes) = 0
       THEN /\ host' = [host EXCEPT !.exit = Some(1)]
            /\ pc' = "exited"
       ELSE /\ pc' = "deliver"
            /\ UNCHANGED host
    /\ UNCHANGED <<parserVars, compileVars, stagedFiles, targetFiles, targetDirs, env,
                   deletedFiles>>

\* the rest of the turn: git status, commit and push of the checkout
Commit ==
    /\ pc = "copied"
    /\ host.index > 0
    /\ host' = [host EXCEPT !.outcomes = Append(@, [repo |-> host.index,
                                                     files |-> targetFiles])]
    /\ pc' = "host"
    /\ UNCHANGED <<parserVars, compileVars, stagedFiles, targetFiles, targetDirs, env,
                   deletedFiles>>

HostProjectTypes == {<<>>, <<"general">>}
HostBasePaths == {None, Some(<<"pkg">>), Some(<<"..", "out">>), Some(<<"", "abs">>), Some(<<"a:b">>)}

\* config.exports with the strategy of each repository, at most n repositories
Exports(n) ==
    UNION {[1..k -> [projectTypes : HostProjectTypes, basePath : HostBasePaths]] : k \in 1..n}

InitHost ==
    /\ pc = "host"
    /\ InitParser
    /\ InitIdleCompile
    /\ stagedFiles \in FileSystems(GeneratedFiles(<<>>), 1)
    /\ targetFiles = <<>>
    /\ targetDirs = {}
    /\ deletedFiles = {}
    /\ env = [projectTypes |-> <<>>, basePath |-> <<>>, strategyBasePath |-> None,
              discovery |-> "find", faults |-> NoFaults]
    /\ host \in [exports : Exports(MaxRepos), index : {0}, exit : {None}, outcomes : {<<>>}]

NextHost == NextRepository \/ CheckProjectTypes \/ Cleanup \/ Copy \/ Commit

SpecHost == InitHost /\ [][NextHost]_vars

(***************************************************************************)
(* Claims about the delivery.                                              *)
(***************************************************************************)
Relevant(tag) == \E i \in 1..Len(env.projectTypes) : tag = Some(env.projectTypes[i])

\* the target paths of what the generation produced for the audiences of the target
\* a generated file is <project type>/<basePath>/<path>/.cursor/rules/...; its place
\* in the target is <basePath of the target>/<path>/.cursor/rules/...
ProducedPaths ==
    {getStrategyForRepo(env) \o SubSeq(f, 2 + Len(env.basePath), Len(f)) :
        f \in {g \in DOMAIN stagedFiles : Relevant(stagedFiles[g])}}

C7_Step ==
    Cleanup => \A f \in deletedFiles' : Relevant(targetFiles[f])

\* C7: the cleanup deletes no delivered file whose ai-rules-project value is
\* missing or is not one of the project types configured for the target.
C7_OrphanSafety == [][C7_Step]_vars

\* after a cleanup that deleted something, a file without the value or with the
\* value of another project is still there though the generation has no such path
C7_Witness ==
    /\ pc = "cleaned"
    /\ deletedFiles # {}
    /\ \E f \in DOMAIN targetFiles :
          /\ ~Relevant(targetFiles[f])
          /\ f \notin getCurrentRulePaths(stagedFiles, env.discovery)
          /\ f \notin ProducedPaths

C8_Step ==
    Cleanup =>
        deletedFiles' = {f \in DOMAIN targetFiles :
                            Relevant(targetFiles[f]) /\ f \notin ProducedPaths}

\* C8: the cleanup deletes exactly the delivered files whose ai-rules-project
\* value is relevant and whose path the fresh generation does not produce.
C8_ExactReconciliation == [][C8_Step]_vars

\* C9: after cleanup then copy, a file with a relevant ai-rules-project value is
\* in the target exactly when the generation produced it for a configured type.
C9_Synchronized ==
    pc = "copied" =>
        {f \in DOMAIN targetFiles : Relevant(targetFiles[f])} = ProducedPaths

(***************************************************************************)
(* Claims about the description of an agent_requested rule.                *)
(***************************************************************************)
\* the positions of crumb where name stands as a whole segment: at the start or
\* after "> ", and followed by the end, by ":" or by " "
SegmentStarts(crumb, name) ==
    {i \in Occurrences(crumb, name) :
        /\ i = 1 \/ (i > 2 /\ SubSeq(crumb, i - 2, i - 1) = <<">", " ">>)
        /\ \/ i + Len(name) - 1 = Len(crumb)
           \/ crumb[i + Len(name)] \in {":", " "}}

\* crumb up to the end of its last segment that is name; crumb itself without one
CutAfterOwnSegment(crumb, name) ==
    IF name = <<>> \/ SegmentStarts(crumb, name) = {} THEN crumb
    ELSE SubSeq(crumb, 1,
                (CHOOSE i \in SegmentStarts(crumb, name) :
                    \A j \in SegmentStarts(crumb, name) : j <= i) + Len(name) - 1)

\* C10: an agent_requested rule whose name has at most one recorded path is
\* described by its name and custom description alone; one whose name has more is
\* described by the breadcrumb threaded down from its parent, cut after the
\* parent's own name segment, then " > " and the name and custom description.
C10_Description ==
    pc = "written" =>
        \A i \in 1..Len(artifacts) :
            LET a == artifacts[i]
                name == NameOf(a.node)
                parentName == IF Len(a.node) > 1 THEN NameOf(Parent(a.node)) ELSE <<>>
                nameWithDesc ==
                    NameWithDesc(name, rules[a.node].effectiveConfig.description)
            IN  a.type = Some("agent_requested") =>
                    a.frontmatter.description =
                        Some(IF NumOccurrences(sectionNames, name) <= 1
                             THEN nameWithDesc
                             ELSE CutAfterOwnSegment(a.parentDescription, parentName)
                                  \o Arrow \o nameWithDesc)

\* C11: two distinct nodes with the same normalized name, both written as
\* agent_requested, never get the same description.
C11_Distinguishes ==
    pc = "written" =>
        \A i \in 1..Len(artifacts), j \in 1..Len(artifacts) :
            ( /\ artifacts[i].node # artifacts[j].node
              /\ formatTitle(NameOf(artifacts[i].node)) = formatTitle(NameOf(artifacts[j].node))
              /\ artifacts[i].type = Some("agent_requested")
              /\ artifacts[j].type = Some("agent_requested") )
            => artifacts[i].frontmatter.description # artifacts[j].frontmatter.description

C12_Step == WriteRulesAgain => artifacts' = artifacts

\* C12: compiling the same documents twice with the same configuration writes
\* the same artifacts: paths, headers and bodies of the second run are those of
\* the first.
C12_Idempotence == [][C12_Step]_vars

(***************************************************************************)
(* Claims about the header and the path of an artifact.                    *)
(***************************************************************************)
HeaderOf(a) == a.frontmatter
ResolvedOf(a) == rules[a.node].effectiveConfig

\* C13: every header carries the project type written for, and beside it exactly
\* the fields of its rule type: always -> alwaysApply true; auto_attached -> globs
\* ("" when there are none) and alwaysApply false; agent_requested -> description
\* and alwaysApply false; manual -> alwaysApply false alone.
C13_Header ==
    pc = "written" =>
        \A i \in 1..Len(artifacts) :
            LET a == artifacts[i]
                h == HeaderOf(a)
                eff == ResolvedOf(a)
            IN  /\ h.aiRulesProject = Some(a.projectType)
                /\ eff.type = Some("always") =>
                       h.alwaysApply = Some(TRUE) /\ h.globs = None /\ h.description = None
                /\ eff.type = Some("auto_attached") =>
                       /\ h.alwaysApply = Some(FALSE) /\ h.description = None
                       /\ h.globs = Some(IF eff.globs # None THEN eff.globs[1] ELSE "")
                /\ eff.type = Some("agent_requested") =>
                       h.alwaysApply = Some(FALSE) /\ h.globs = None /\ h.description # None
                /\ eff.type = Some("manual") =>
                       h.alwaysApply = Some(FALSE) /\ h.globs = None /\ h.description = None

\* a manual rule that declares a description, written without one, beside an
\* auto_attached rule written with its globs
C13_Witness ==
    /\ pc = "written"
    /\ \E i \in 1..Len(artifacts), j \in 1..Len(artifacts) :
          /\ ResolvedOf(artifacts[i]).type = Some("manual")
          /\ ResolvedOf(artifacts[i]).description # None
          /\ HeaderOf(artifacts[i]).description = None
          /\ ResolvedOf(artifacts[j]).type = Some("auto_attached")
          /\ HeaderOf(artifacts[j]).globs = Some("*.ts")

\* the section at p is excluded, or lies below an excluded one
InExcluded(p) ==
    \E k \in 1..Len(p) : rules[Prefix(p, k)].effectiveConfig.type = Some("excluded")

AudiencesOf(p) ==
    IF rules[p].effectiveConfig.projectTypes # None
    THEN rules[p].effectiveConfig.projectTypes[1] ELSE <<>>

C15_Step == Copy => DOMAIN targetFiles' = DOMAIN targetFiles \cup ProducedPaths

\* C15: the copy puts every rule generated for a project type of the target at
\* <base path>/<path>/.cursor/rules/<folders>/<name>.mdc, the base path once and
\* being the one of the branch strategy when it gives one, and writes nowhere else.
C15_DeliveredPath == [][C15_Step]_vars

(***************************************************************************)
(* C16: the Guide/Setup document.                                          *)
(***************************************************************************)
\* every line of ScenarioDocument was read, and the rules were written
ScenarioWritten == pc = "written" /\ nLines = Len(ScenarioDocument)

ScenarioRulePath(folders, file) ==
    [projectType |-> "general", basePath |-> Some(<<>>), path |-> Some(<<"docs">>),
     folders |-> folders, file |-> file]

\* general/docs/.cursor/rules/guide.mdc
IsGuideArtifact(a) ==
    /\ a.rulePath = ScenarioRulePath(<<>>, toLowerCase(GuideTitle))
    /\ a.frontmatter.alwaysApply = Some(TRUE)
    /\ a.frontmatter.description = None
    /\ a.content = <<TextLine("Intro text")>>
    /\ a.references = <<SetupTitle>>

\* general/docs/.cursor/rules/guide/setup.mdc
IsSetupArtifact(a) ==
    /\ a.rulePath = ScenarioRulePath(<<toLowerCase(GuideTitle)>>, toLowerCase(SetupTitle))
    /\ a.frontmatter.alwaysApply = Some(FALSE)
    /\ a.frontmatter.description = Some(SetupTitle)
    /\ a.content = <<TextLine("Setup text")>>
    /\ a.references = <<>>

\* general/docs/.cursor/rules/table_of_contents.mdc
IsTocArtifact(a) ==
    /\ a.rulePath = ScenarioRulePath(<<>>, TocName)
    /\ a.frontmatter.alwaysApply = Some(TRUE)
    /\ a.frontmatter.description = None
    /\ a.content = <<TocHeaderLine, TocEntryLine(0, GuideTitle), TocEntryLine(1, SetupTitle)>>
    /\ a.references = <<>>

\* C16 as stated: compiled under the default configuration (defaultRulePath 'docs'),
\* the Guide/Setup document yields exactly two artifacts, guide.mdc and
\* guide/setup.mdc.
C16_TwoArtifacts ==
    (ScenarioWritten /\ config = ScenarioConfig) =>
        /\ Len(artifacts) = 2
        /\ IsGuideArtifact(artifacts[1])
        /\ IsSetupArtifact(artifacts[2])

\* C16, amended: under the default configuration, where createTableOfContents is
\* true, the Guide/Setup document yields exactly three artifacts, first
\* general/docs/.cursor/rules/table_of_contents.mdc (alwaysApply true, listing Guide
\* and below it Setup), then guide.mdc and guide/setup.mdc as described; with
\* createTableOfContents false it yields exactly these two.
C16_Scenario ==
    ScenarioWritten =>
        IF config.createTableOfContents
        THEN /\ Len(artifacts) = 3
             /\ IsTocArtifact(artifacts[1])
             /\ IsGuideArtifact(artifacts[2])
             /\ IsSetupArtifact(artifacts[3])
        ELSE /\ Len(artifacts) = 2
             /\ IsGuideArtifact(artifacts[1])
             /\ IsSetupArtifact(artifacts[2])

C16_Witness ==
    /\ ScenarioWritten
    /\ config = ScenarioConfig
    /\ Len(artifacts) = 3
    /\ IsTocArtifact(artifacts[1])

(***************************************************************************)
(* C17: the base path and the declared paths.                              *)
(***************************************************************************)
\* C17: every artifact is written inside <staging root>/<t>/<basePath>/, whatever
\* path the node or an ancestor declares.
C17_InsideBasePath ==
    pc = "written" =>
        \A i \in 1..Len(artifacts) :
            IsPrefix(StagingRoot \o <<artifacts[i].projectType>> \o config.basePath[1],
                     RuleDir(artifacts[i].rulePath))

(***************************************************************************)
(* C18: the directories removed by the cleanup.                            *)
(***************************************************************************)
HasEntry(dir, files, dirs) == \E e \in files \cup dirs : Len(e) > 0 /\ Parent(e) = dir

\* C18: the cleanup removes exactly the directories above a deleted file that have
\* become empty, up to the root: the root stays, no directory appears, a directory
\* that is removed has nothing left in it and lies above a deleted file, and a
\* directory above a deleted file that stays is the root or still has an entry.
C18_Step ==
    Cleanup =>
        /\ TargetDir \in targetDirs'
        /\ targetDirs' \subseteq targetDirs
        /\ \A d \in targetDirs \ targetDirs' :
              /\ ~HasEntry(d, DOMAIN targetFiles', targetDirs')
              /\ \E f \in deletedFiles' : IsStrictPrefix(d, f)
        /\ \A d \in targetDirs' :
              (\E f \in deletedFiles' : IsStrictPrefix(d, f)) =>
                  d = TargetDir \/ HasEntry(d, DOMAIN targetFiles', targetDirs')

C18_EmptyDirectories == [][C18_Step]_vars

\* every rule of the checkout was deleted, the directories above them with it, and
\* the root is what remains
C18_Witness ==
    /\ pc = "cleaned"
    /\ deletedFiles # {}
    /\ DOMAIN targetFiles = {}
    /\ targetDirs = {TargetDir}

(***************************************************************************)
(* C19: a file operation of the cleanup fails.                             *)
(***************************************************************************)
\* the delivered rules the cleanup could read that the generation does not produce
Orphans ==
    {f \in findMdcFiles(targetFiles, env.discovery) \ env.faults.read :
        /\ Relevant(targetFiles[f])
        /\ f \notin getCurrentRulePaths(stagedFiles, env.discovery)}

\* C19: whichever one unlink, rmdir or read fails, every other orphan is deleted,
\* the file whose unlink failed stays, and the returned list holds exactly the
\* files that are gone.
C19_Step ==
    Cleanup =>
        /\ \A f \in Orphans : f \notin env.faults.unlink => f \notin DOMAIN targetFiles'
        /\ \A f \in DOMAIN targetFiles : f \in env.faults.unlink => f \in DOMAIN targetFiles'
        /\ deletedFiles' = DOMAIN targetFiles \ DOMAIN targetFiles'

C19_PartialFailure == [][C19_Step]_vars

\* the unlink of one orphan failed, which is still there, and another was deleted
C19_Witness ==
    /\ pc = "cleaned"
    /\ deletedFiles # {}
    /\ \E f \in env.faults.unlink : f \in Orphans

(***************************************************************************)
(* C20: the discovery strategies.                                          *)
(***************************************************************************)
\* C20: fd, find and the JavaScript walk find the same .mdc files, those under
\* .cursor included, in the checkout and in the generated tree.
C20_StrategyIndependent ==
    \A method \in Discoveries :
        /\ findMdcFiles(targetFiles, method) = DOMAIN targetFiles
        /\ findMdcFiles(stagedFiles, method) = DOMAIN stagedFiles

(***************************************************************************)
(* C21: the groups of the table of contents.                               *)
(***************************************************************************)
Generated == pc \in {"generated", "written"} /\ config.createTableOfContents

InGroup(p, g) ==
    HasProjectType(rules[p], g.projectType) /\ rules[p].effectiveConfig.path = g.path

Groups ==
    UNION {{[projectType |-> ProjectTypesOf(rules[p])[k],
             path |-> rules[p].effectiveConfig.path] :
               k \in 1..Len(ProjectTypesOf(rules[p]))} : p \in DOMAIN rules}

\* a corpus root, or a node whose resolved path differs from its parent's
IsGroupRoot(p) ==
    Len(p) = 1 \/ rules[p].effectiveConfig.path # rules[Parent(p)].effectiveConfig.path

GroupRoots(g) ==
    SelectSeq(Walk(keyOrder, <<>>, 1), LAMBDA p : IsGroupRoot(p) /\ InGroup(p, g))

\* the nodes listed below the root r: those reached from r through nodes of the group
ListedBelow(r, g) ==
    SelectSeq(Walk(keyOrder, <<>>, 1),
              LAMBDA q : /\ IsPrefix(r, q)
                         /\ \A k \in Len(r)..Len(q) : InGroup(Prefix(q, k), g))

RECURSIVE GroupOutline(_, _, _)
GroupOutline(roots, i, g) ==
    IF i > Len(roots) THEN <<>>
    ELSE LET listed == ListedBelow(roots[i], g)
         IN  [k \in 1..Len(listed) |->
                 TocEntryLine(Len(listed[k]) - Len(roots[i]), NameOf(listed[k]))]
             \o GroupOutline(roots, i + 1, g)

TocRulesOf(g) ==
    {i \in 1..Len(tocRules) :
        /\ tocRules[i].effectiveConfig.path = g.path
        /\ tocRules[i].effectiveConfig.projectTypes = Some(<<g.projectType>>)}

\* C21: for every group (project type, resolved path) with a root there is exactly
\* one table_of_contents rule, of type always, with the group's path and project
\* type and the depth-first outline of its roots; a group without root has none,
\* and every table_of_contents rule belongs to a group.
C21_Grouping ==
    Generated =>
        /\ \A g \in Groups :
              IF GroupRoots(g) = <<>> THEN TocRulesOf(g) = {}
              ELSE /\ Cardinality(TocRulesOf(g)) = 1
                   /\ \A i \in TocRulesOf(g) :
                         /\ tocRules[i].effectiveConfig.type = Some("always")
                         /\ tocRules[i].content
                                = <<TocHeaderLine>> \o GroupOutline(GroupRoots(g), 1, g)
        /\ \A i \in 1..Len(tocRules) : \E g \in Groups : i \in TocRulesOf(g)

(***************************************************************************)
(* C22: the entries of a table of contents and the artifacts.              *)
(***************************************************************************)
\* the table of contents of the group has an entry with the name of the node
ListedIn(q, g) ==
    \E i \in TocRulesOf(g) :
        \E k \in 1..Len(tocRules[i].content) :
            /\ tocRules[i].content[k].bullet
            /\ tocRules[i].content[k].name = NameOf(q)

\* an artifact was written for the node, for the project type and path of the group
RenderedIn(q, g) ==
    \E i \in 1..Len(artifacts) :
        /\ artifacts[i].node = q
        /\ artifacts[i].projectType = g.projectType
        /\ artifacts[i].rulePath.path = g.path

\* C22: a table of contents lists a node exactly when the node has an artifact for
\* the project type and path of that table of contents.
C22_ListsRendered ==
    (pc = "written" /\ config.createTableOfContents) =>
        \A q \in DOMAIN rules : \A g \in Groups : ListedIn(q, g) <=> RenderedIn(q, g)

(***************************************************************************)
(* C23: the corpus of several files.                                       *)
(***************************************************************************)
\* the files of the corpus in the order they were processed, the last one included
Files == Append(hist.files, [tree |-> sections, keys |-> keyOrder])

TitlesOf(file) == {file.keys[<<>>][i] : i \in 1..Len(file.keys[<<>>])}

Below(tree, t) == {p \in DOMAIN tree : p[1] = t}

\* the last file that has the top-level title t
LastWith(files, t) ==
    CHOOSE i \in 1..Len(files) :
        /\ t \in TitlesOf(files[i])
        /\ \A j \in (i + 1)..Len(files) : t \notin TitlesOf(files[j])

\* the merged tree has the top-level titles of all files, each with the subtree of
\* the last file that has it
KeyUnion(files, merged) ==
    /\ {p[1] : p \in DOMAIN merged.tree} = UNION {TitlesOf(files[i]) : i \in 1..Len(files)}
    /\ \A p \in DOMAIN merged.tree :
          LET last == files[LastWith(files, p[1])]
          IN  /\ Below(merged.tree, p[1]) = Below(last.tree, p[1])
              /\ merged.tree[p] = last.tree[p]

DisjointTitles(files) ==
    \A i, j \in 1..Len(files) : i # j => TitlesOf(files[i]) \cap TitlesOf(files[j]) = {}

\* what one compilation of the files, in this order, writes
RECURSIVE MergeFrom(_, _, _)
MergeFrom(files, i, all) ==
    IF i > Len(files) THEN all
    ELSE MergeFrom(files, i + 1, ObjectAssign(all, files[i].tree, files[i].keys))

RECURSIVE NamesFrom(_, _, _)
NamesFrom(files, i, names) ==
    IF i > Len(files) THEN names
    ELSE NamesFrom(files, i + 1, collectSectionNames(names, files[i].tree, files[i].keys))

Compiled(files) ==
    LET merged == MergeFrom(files, 1, NoSections)
        names == NamesFrom(files, 1, [n \in {} |-> <<>>])
        ruleSet == [p \in DOMAIN merged.tree |-> processSection(merged.tree, config, p)]
        tocs == IF config.createTableOfContents
                THEN generateTableOfContents(ruleSet, merged.keys) ELSE <<>>
    IN  WriteTocRules(1, tocs, config, names)
        \o writeRuleFiles(1, ruleSet, merged.keys, config, names)

InOrder(files, perm) == [i \in 1..Len(files) |-> files[perm[i]]]

ArtifactSet(arts) == {arts[i] : i \in 1..Len(arts)}

\* C23 as stated: the merged tree is the key-union of the files, a later file's
\* top-level section replacing an earlier one whole, and for files with disjoint
\* top-level titles every order of the files yields the same set of artifacts.
C23_OrderIndependent ==
    pc = "written" =>
        /\ KeyUnion(Files, allSections)
        /\ artifacts = Compiled(Files)
        /\ DisjointTitles(Files) =>
              \A perm \in Permutations(1..Len(Files)) :
                  ArtifactSet(Compiled(InOrder(Files, perm))) = ArtifactSet(artifacts)

(***************************************************************************)
(* Claims about the entry point.                                           *)
(***************************************************************************)
\* the loop of the entry point is over: the shell has exited or every key of
\* config.exports has had its turn
LoopOver == host.exit # None \/ (pc = "host" /\ host.index = Len(host.exports))

Delivered == {host.outcomes[i].repo : i \in 1..Len(host.outcomes)}

StrategyOf(i) == IF host.exports[i].basePath # None THEN host.exports[i].basePath[1] ELSE <<>>

AllStrategiesValid == \A i \in 1..Len(host.exports) : validateStrategy(StrategyOf(i))

\* C24: a target repository without project types is fatal for that repository
\* only: copyRulesToRepo.js ends with a non-zero status before the cleanup or the
\* copy has touched the checkout, and when the loop of the entry point is over,
\* every other repository of config.exports (all strategies being valid) has been
\* delivered.
C24_FatalForTargetOnly ==
    AllStrategiesValid =>
        /\ (pc = "exited" /\ host.index > 0) =>
              /\ host.exit = Some(1)
              /\ targetFiles = ClonedFiles
              /\ deletedFiles = {}
        /\ LoopOver =>
              \A i \in 1..Len(host.exports) :
                  host.exports[i].projectTypes # <<>> => i \in Delivered

\* a path that climbs out of the directory it is joined to
Escapes(parts) ==
    \E k \in 1..Len(parts) :
        Cardinality({i \in 1..k : parts[i] = ".."})
            > Cardinality({i \in 1..k : parts[i] \notin {"..", ".", ""}})

\* C25: a strategy that validateStrategy accepted has a relative base path that
\* does not climb out of the repository, and every file the copy has put into the
\* checkout lies inside the repository root.
C25_InsideRepository ==
    pc \in {"cloned", "deliver", "cleaned", "copied"} =>
        /\ ~isAbsolute(getStrategyForRepo(env))
        /\ ~Escapes(getStrategyForRepo(env))
        /\ \A f \in DOMAIN targetFiles : ~Escapes(f)

(***************************************************************************)
(* Claims about the nesting of headings.                                   *)
(***************************************************************************)
\* C26: the nesting of the open nodes follows the depth of their headings: the
\* heading of every open node is strictly deeper than the heading of its parent,
\* so that headings of equal depth are siblings and no heading is the child of
\* a heading of equal or greater depth, also in a document that starts below
\* depth 1 or skips depths.
C26_NestingFollowsDepth ==
    /\ Len(hist.openLevels) = Len(currentPath)
    /\ \A k \in 2..Len(currentPath) : hist.openLevels[k - 1] < hist.openLevels[k]

(***************************************************************************)
(* Claims about the name index.                                            *)
(***************************************************************************)
\* the nodes of the merged corpus whose normalized name is n
Bearing(n) == {p \in DOMAIN allSections.tree : formatTitle(NameOf(p)) = n}

\* C27: after the names of all files were collected, the index holds for every
\* normalized name exactly one path per node of the merged corpus that bears the
\* name, the path of the ancestors of that node, and nothing else; a section
\* that a later file has overwritten has no entry.
C27_IndexMatchesCorpus ==
    pc \in {"generated", "written"} =>
        /\ \A p \in DOMAIN allSections.tree : formatTitle(NameOf(p)) \in DOMAIN sectionNames
        /\ \A n \in DOMAIN sectionNames :
              /\ Len(sectionNames[n]) = Cardinality(Bearing(n))
              /\ {sectionNames[n][i] : i \in 1..Len(sectionNames[n])}
                     = {Parent(p) : p \in Bearing(n)}

(***************************************************************************)
(* Claims about the two resolutions of the effective configuration.        *)
(***************************************************************************)
\* the files written for the node at p
ArtifactsOf(p) == {i \in 1..Len(artifacts) : artifacts[i].node = p}

\* C28: the effective config that the renderer computes for a node equals the
\* effectiveConfig that generateRules recorded for it; for a top-level node,
\* resolving the recorded effectiveConfig again without a parent returns it
\* unchanged; and every file written for a node has the type, the path and one of
\* the project types of the recorded effectiveConfig.
C28_ResolutionsAgree ==
    pc = "written" =>
        \A p \in DOMAIN rules :
            /\ RendererConfig(rules, config, p) = rules[p].effectiveConfig
            /\ Len(p) = 1 =>
                  calculateEffectiveConfig([config |-> rules[p].effectiveConfig], None, config)
                      = rules[p].effectiveConfig
            /\ \A i \in ArtifactsOf(p) :
                  /\ artifacts[i].type = rules[p].effectiveConfig.type
                  /\ artifacts[i].rulePath.path = rules[p].effectiveConfig.path
                  /\ HasProjectType(rules[p], artifacts[i].projectType)

\* a written subsection that declares no type and whose parent declares the type
\* always and the path x: both resolutions give it the parent's type and path
C28_Witness ==
    /\ pc = "written"
    /\ \E p \in DOMAIN rules :
          /\ Len(p) = 2
          /\ Get(rules[p].config, "type") = None
          /\ Get(rules[Parent(p)].config, "type") = Some("always")
          /\ rules[p].effectiveConfig.type = Some("always")
          /\ rules[p].effectiveConfig.path = Some(<<"x">>)
          /\ ArtifactsOf(p) # {}
          /\ ArtifactsOf(Parent(p)) # {}

(***************************************************************************)
(* Claims about the output files.                                          *)
(***************************************************************************)
\* the file an artifact is written to: its directory, the folders of its ancestors
\* below .cursor/rules, and its file name
OutputFile(a) == <<RuleDir(a.rulePath), a.rulePath.folders, a.rulePath.file>>

\* C29: the output paths of one compilation are unique: no two writes of the
\* render order, the table_of_contents rules included, go to the same file.
C29_UniqueOutputPaths ==
    pc = "written" =>
        \A i, j \in 1..Len(artifacts) :
            i # j => OutputFile(artifacts[i]) # OutputFile(artifacts[j])

(***************************************************************************)
(* Claims about the header of the rule files.                              *)
(***************************************************************************)
\* parsed.data['ai-rules-project'] of the file written for an artifact; None when
\* the header cannot be read
HeaderTag(a) ==
    LET parsed == matter(frontmatterEntries(a.frontmatter))
    IN  IF parsed = None THEN None ELSE Some(parsed[1]["ai-rules-project"])

\* C30: for every file the renderer wrote for a project type, whatever characters
\* its title and description hold, the header of the file can be read back and
\* gives that project type as the value of ai-rules-project.
C30_OwnershipRoundTrip ==
    pc = "written" =>
        \A i \in 1..Len(artifacts) :
            HeaderTag(artifacts[i]) = Some(<<artifacts[i].projectType>>)

====
